---- MODULE Spec2Model ----
(***************************************************************************)
(* Chat-store normalization engine of the AI-IDE chat export tool.         *)
(*                                                                         *)
(* The engine is a chain of synchronous calls.  A behaviour is one call:   *)
(* op is the operation, arg the argument it is applied to, pc tells where  *)
(* the call is and ret is the value it returned.  Every action is one call *)
(* of one operation of the source, computed by an operator translated from *)
(* it.  A run over the containers of a host is a loop of such calls:       *)
(* locals holds the local variables of the loop and conns the store        *)
(* connections that are open.  For the calls on a ConfigManager, locals    *)
(* holds the fields of the object and the settings file.                   *)
(*                                                                         *)
(* Text is a sequence of one-character strings, so that trimming and       *)
(* substring containment are computed as Python computes them.             *)
(***************************************************************************)
EXTENDS Integers, Sequences, FiniteSets, TLC

VARIABLES pc, op, arg, ret, locals, conns

vars == <<pc, op, arg, ret, locals, conns>>

(***************************************************************************)
(* Bounds of the model.                                                    *)
(***************************************************************************)
MaxLen == 3
MaxNodes == 2
MaxTurns == 2
MaxConvs == 2
MaxContainers == 2

(***************************************************************************)
(* Text                                                                    *)
(***************************************************************************)
\* characters str.strip() removes
Whitespace == {" ", "\n"}

\* characters the input texts are drawn from
Alphabet == {"a", "b", " "}

RECURSIVE TextsOfLen(_)
TextsOfLen(n) ==
    IF n = 0 THEN {<<>>}
    ELSE {<<c>> \o t : c \in Alphabet, t \in TextsOfLen(n - 1)}

Texts == UNION {TextsOfLen(n) : n \in 0..MaxLen}

RECURSIVE LStrip(_)
LStrip(s) ==
    IF s = <<>> THEN <<>>
    ELSE IF Head(s) \in Whitespace THEN LStrip(Tail(s)) ELSE s

RECURSIVE RStrip(_)
RStrip(s) ==
    IF s = <<>> THEN <<>>
    ELSE IF s[Len(s)] \in Whitespace THEN RStrip(SubSeq(s, 1, Len(s) - 1)) ELSE s

\* str.strip()
Strip(s) == RStrip(LStrip(s))

\* Python's `p in s` on two strings
Contains(s, p) ==
    \E i \in 0..(Len(s) - Len(p)) : SubSeq(s, i + 1, i + Len(p)) = p

\* sep.join(parts)
RECURSIVE Join(_, _)
Join(sep, parts) ==
    IF parts = <<>> THEN <<>>
    ELSE IF Len(parts) = 1 THEN parts[1]
    ELSE parts[1] \o sep \o Join(sep, Tail(parts))

BlankLine == <<"\n", "\n">>

(***************************************************************************)
(* ConversationParser._merge_message_content                               *)
(***************************************************************************)
\* mutant: the containment checks are left out
MergeNoDedup(response_text, structured_content) ==
    LET r == Strip(response_text)
        s == Strip(structured_content)
    IN  IF r = <<>> /\ s = <<>> THEN <<>>
        ELSE IF r = <<>> THEN s
        ELSE IF s = <<>> THEN r
        ELSE Join(BlankLine, <<r, s>>)

\* mutant: the two channels are joined in the wrong order
MergeSwapped(response_text, structured_content) ==
    LET r == Strip(response_text)
        s == Strip(structured_content)
    IN  IF r = <<>> /\ s = <<>> THEN <<>>
        ELSE IF r = <<>> THEN s
        ELSE IF s = <<>> THEN r
        ELSE IF Contains(s, r) THEN s
        ELSE IF Contains(r, s) THEN r
        ELSE Join(BlankLine, <<s, r>>)

\* mutant: when both texts are present the structured content alone is kept
MergeStructuredOnly(response_text, structured_content) ==
    IF Strip(structured_content) = <<>> THEN Strip(response_text)
    ELSE Strip(structured_content)

MergeMessageContent(response_text, structured_content) ==
    LET r == Strip(response_text)
        s == Strip(structured_content)
    IN  IF r = <<>> /\ s = <<>> THEN <<>>
        ELSE IF r = <<>> THEN s
        ELSE IF s = <<>> THEN r
        ELSE IF Contains(s, r) THEN s
        ELSE IF Contains(r, s) THEN r
        ELSE Join(BlankLine, <<r, s>>)

(***************************************************************************)
(* JSON documents held in text.  A text of the input alphabet is never     *)
(* valid JSON, so json.loads fails on every plain text of the model; a     *)
(* text that is a JSON document is carried as the decoded value and        *)
(* written out by JsonText when the code uses it as text.                  *)
(***************************************************************************)
\* "x" as the characters of the JSON string literal
Quoted(t) == <<"\"">> \o t \o <<"\"">>

MermaidTag == <<"m", "e", "r", "m", "a", "i", "d", "_", "d", "i", "a", "g", "r", "a", "m">>
OtherTag == <<"n", "o", "t", "e">>

DefinitionKey ==
    <<"d", "i", "a", "g", "r", "a", "m", "_",
      "d", "e", "f", "i", "n", "i", "t", "i", "o", "n">>

\* the text of the JSON object {"type": tag, "diagram_definition": d, "title": ti}
JsonText(tag, d, ti) ==
    <<"{">> \o Quoted(<<"t", "y", "p", "e">>) \o <<":">> \o Quoted(tag) \o <<",">>
    \o Quoted(DefinitionKey) \o <<":">> \o Quoted(d) \o <<",">>
    \o Quoted(<<"t", "i", "t", "l", "e">>) \o <<":">> \o Quoted(ti) \o <<"}">>

(***************************************************************************)
(* Values of a chat item                                                   *)
(***************************************************************************)
\* the "content" of a fragment: k = "absent" (no such field), "text" (a
\* string that is no JSON document, s), "json" (a string that is the JSON
\* object with type tag `tag`, diagram_definition d and title ti) or "dict"
\* (the same object stored as a structured value, not as a string)
Content(k, s, tag, d, ti) == [k |-> k, s |-> s, tag |-> tag, d |-> d, ti |-> ti]
NoContent == Content("absent", <<>>, <<>>, <<>>, <<>>)
TextContent(s) == Content("text", s, <<>>, <<>>, <<>>)

\* the characters of a content that is a string
ContentText(c) ==
    IF c.k = "text" THEN c.s
    ELSE IF c.k = "json" THEN JsonText(c.tag, c.d, c.ti)
    ELSE <<>>

\* the "input_json" of a tool invocation: k = "empty" (''), "bad" (a string
\* that is no JSON), "obj" (a JSON object with diagram_definition d and
\* title ti, '' standing for a missing field) or "nonobj" (valid JSON that
\* is no object, such as a list)
InputJson(k, d, ti) == [k |-> k, d |-> d, ti |-> ti]

ToolUsePayload(name, id, input) ==
    [tool_name |-> name, tool_use_id |-> id, input_json |-> input]
NoToolUse == ToolUsePayload("", <<>>, InputJson("empty", <<>>, <<>>))

\* one element of structured_output_nodes; has_id = FALSE: no "id" field
OutputNode(has_id, id, type, content, has_tool_use, tool_use) ==
    [has_id |-> has_id, id |-> id, type |-> type, content |-> content,
     has_tool_use |-> has_tool_use, tool_use |-> tool_use]

\* one element of structured_request_nodes; content is the content of its
\* tool_result_node
RequestNode(type, content) == [type |-> type, content |-> content]

TextType == 0
ToolResultType == 1
ToolUseType == 5

(***************************************************************************)
(* ConversationParser._process_mermaid_node                                *)
(***************************************************************************)
\* the backquote character, which a TLA+ string cannot hold
BQ == "bq"
MermaidFenceOpen == <<BQ, BQ, BQ, "m", "e", "r", "m", "a", "i", "d", "\n">>
MermaidFenceClose == <<"\n", BQ, BQ, BQ>>

ProcessMermaidNode(diagram_definition, title) ==
    IF diagram_definition = <<>> THEN <<>>
    ELSE LET mermaid_block == MermaidFenceOpen \o diagram_definition \o MermaidFenceClose
         IN  IF title # <<>>
             THEN <<"*", "*">> \o title \o <<"*", "*">> \o BlankLine \o mermaid_block
             ELSE mermaid_block

(***************************************************************************)
(* ConversationParser._extract_structured_content                          *)
(*                                                                         *)
(* The body of the loop over one fragment gives the parts the fragment     *)
(* appends to content_parts and tells whether it raised an exception that  *)
(* no inner handler catches (AttributeError): the handler around the whole *)
(* function then returns ''.                                               *)
(***************************************************************************)
Parts(ps) == [raised |-> FALSE, parts |-> ps]
Raised == [raised |-> TRUE, parts |-> <<>>]

\* the diagram block of a decoded JSON object, '' when it is no diagram
DiagramOf(c) ==
    IF c.tag = MermaidTag THEN ProcessMermaidNode(c.d, c.ti) ELSE <<>>

\* node_type == 0
TextNodeParts(node) ==
    LET c == node.content
    IN  IF c.k = "absent" THEN Parts(<<>>)
        ELSE IF c.k = "dict" THEN Raised
        ELSE IF Strip(ContentText(c)) = <<>> THEN Parts(<<>>)
        ELSE IF c.k = "json" /\ DiagramOf(c) # <<>> THEN Parts(<<DiagramOf(c)>>)
        ELSE Parts(<<Strip(ContentText(c))>>)

\* mutant: every tool invocation is written into the assistant text
ToolNodePartsVerbose(node) ==
    LET tool_use == IF node.has_tool_use THEN node.tool_use ELSE NoToolUse
        input == tool_use.input_json
    IN  IF input.k = "obj" /\ ProcessMermaidNode(input.d, input.ti) # <<>>
        THEN Parts(<<ProcessMermaidNode(input.d, input.ti)>>)
        ELSE IF input.k = "nonobj" THEN Raised
        ELSE Parts(<<>>)

\* node_type == 5
ToolNodeParts(node) ==
    LET tool_use == IF node.has_tool_use THEN node.tool_use ELSE NoToolUse
        input == tool_use.input_json
    IN  IF tool_use.tool_name # "render-mermaid" THEN Parts(<<>>)
        ELSE IF input.k = "empty" \/ input.k = "bad" THEN Parts(<<>>)
        ELSE IF input.k = "nonobj" THEN Raised
        ELSE IF ProcessMermaidNode(input.d, input.ti) # <<>>
             THEN Parts(<<ProcessMermaidNode(input.d, input.ti)>>)
             ELSE Parts(<<>>)

\* any other node_type
OtherNodeParts(node) ==
    LET c == node.content
    IN  IF c.k = "absent" THEN Parts(<<>>)
        ELSE IF c.k = "text" /\ c.s = <<>> THEN Parts(<<>>)
        ELSE IF c.k \in {"json", "dict"} /\ DiagramOf(c) # <<>>
             THEN Parts(<<DiagramOf(c)>>)
        ELSE IF c.k = "dict" THEN Raised
        ELSE IF Strip(ContentText(c)) = <<>> THEN Parts(<<>>)
        ELSE Parts(<<Strip(ContentText(c))>>)

OutputNodeParts(node) ==
    IF node.type = TextType THEN TextNodeParts(node)
    ELSE IF node.type = ToolUseType THEN ToolNodeParts(node)
    ELSE OtherNodeParts(node)

\* the body of the loop over structured_request_nodes
RequestNodeParts(node) ==
    LET c == node.content
    IN  IF node.type = ToolResultType /\ c.k = "json" /\ DiagramOf(c) # <<>>
        THEN Parts(<<DiagramOf(c)>>)
        ELSE Parts(<<>>)

\* x.get('id', 0)
SortKey(node) == IF node.has_id THEN node.id ELSE 0

\* insertion of x into a list sorted by key, after the elements whose key is
\* not greater: sorted() is stable
RECURSIVE InsertByKey(_, _)
InsertByKey(x, sorted) ==
    IF sorted = <<>> THEN <<x>>
    ELSE IF SortKey(Head(sorted)) <= SortKey(x)
         THEN <<Head(sorted)>> \o InsertByKey(x, Tail(sorted))
         ELSE <<x>> \o sorted

RECURSIVE SortedByIdFrom(_, _)
SortedByIdFrom(nodes, acc) ==
    IF nodes = <<>> THEN acc
    ELSE SortedByIdFrom(Tail(nodes), InsertByKey(Head(nodes), acc))

\* mutant: the fragments are taken in their stored order
SortedNodesUnsorted(output_nodes) == output_nodes

\* sorted(output_nodes, key=lambda x: x.get('id', 0))
SortedNodes(output_nodes) == SortedByIdFrom(output_nodes, <<>>)

\* the loops: the parts of the fragments one after the other, or Raised as
\* soon as one fragment raises
RECURSIVE OutputParts(_)
OutputParts(nodes) ==
    IF nodes = <<>> THEN Parts(<<>>)
    ELSE LET h == OutputNodeParts(Head(nodes))
             t == OutputParts(Tail(nodes))
         IN  IF h.raised \/ t.raised THEN Raised ELSE Parts(h.parts \o t.parts)

RECURSIVE RequestParts(_)
RequestParts(nodes) ==
    IF nodes = <<>> THEN Parts(<<>>)
    ELSE LET h == RequestNodeParts(Head(nodes))
             t == RequestParts(Tail(nodes))
         IN  IF h.raised \/ t.raised THEN Raised ELSE Parts(h.parts \o t.parts)

\* the function after the sort: content_parts joined, '' when a fragment
\* raised
ContentOfNodes(sorted_nodes, request_nodes) ==
    LET out == OutputParts(sorted_nodes)
        req == RequestParts(request_nodes)
    IN  IF out.raised \/ req.raised THEN <<>>
        ELSE Join(BlankLine, out.parts \o req.parts)

ExtractStructuredContent(chat_item) ==
    ContentOfNodes(SortedNodes(chat_item.structured_output_nodes),
                   chat_item.structured_request_nodes)

(***************************************************************************)
(* ConversationParser._extract_tool_uses                                   *)
(***************************************************************************)
\* chat_item.get('request_id') written into an f-string: None reads "None"
RequestIdText(chat_item) ==
    IF chat_item.has_request_id THEN chat_item.request_id
    ELSE <<"N", "o", "n", "e">>

\* mutant: the side-table is looked up by the invocation id alone
StateKeyIdOnly(chat_item, tool_use_id) == tool_use_id

\* f"{chat_item.get('request_id')};{tool_use.tool_use_id}"
StateKey(chat_item, tool_use_id) ==
    RequestIdText(chat_item) \o <<";">> \o tool_use_id

\* a ToolUse record; no_result = TRUE: result is None
ToolUse(name, id, input, no_result, result, is_error) ==
    [tool_name |-> name, tool_use_id |-> id, input_json |-> input,
     no_result |-> no_result, result |-> result, is_error |-> is_error]

\* the ToolUse of one tool-invocation fragment, after the lookup of its state
ToolUseOf(chat_item, node) ==
    LET t == node.tool_use
        states == chat_item.toolUseStates
        key == StateKey(chat_item, t.tool_use_id)
    IN  IF key \in DOMAIN states
        THEN ToolUse(t.tool_name, t.tool_use_id, t.input_json, FALSE,
                     IF states[key].has_result THEN states[key].text ELSE <<>>,
                     IF states[key].has_result THEN states[key].isError ELSE FALSE)
        ELSE ToolUse(t.tool_name, t.tool_use_id, t.input_json, TRUE, <<>>, FALSE)

RECURSIVE ToolUsesOf(_, _)
ToolUsesOf(chat_item, nodes) ==
    IF nodes = <<>> THEN <<>>
    ELSE LET node == Head(nodes)
             rest == ToolUsesOf(chat_item, Tail(nodes))
         IN  IF node.type = ToolUseType /\ node.has_tool_use
             THEN <<ToolUseOf(chat_item, node)>> \o rest
             ELSE rest

\* mutant: the tool invocations are collected from the fragments sorted by id
ExtractToolUsesSorted(chat_item) ==
    ToolUsesOf(chat_item, SortedNodes(chat_item.structured_output_nodes))

ExtractToolUses(chat_item) ==
    ToolUsesOf(chat_item, chat_item.structured_output_nodes)

(***************************************************************************)
(* Chat items the turn-level operations are applied to                     *)
(***************************************************************************)
\* one element of chatHistory.  has_request_id = FALSE: no "request_id"
\* field.  timestamp is the kind of the "timestamp" field: "missing",
\* "valid" (ISO-8601 text), "unparsable" (other text) or "nontext" (a
\* number).  toolUseStates maps composite keys to outcomes.
ChatItem(has_rid, rid, ts, request, response, out_nodes, req_nodes, states, chunks) ==
    [has_request_id |-> has_rid, request_id |-> rid, timestamp |-> ts,
     request_message |-> request, response_text |-> response,
     structured_output_nodes |-> out_nodes,
     structured_request_nodes |-> req_nodes,
     toolUseStates |-> states, workspace_file_chunks |-> chunks]

(***************************************************************************)
(* _parse_datetime.  The result is "now" (datetime.now()) or "parsed";     *)
(* raised = TRUE: an exception leaves the function.                        *)
(***************************************************************************)
TimestampKinds == {"missing", "empty", "valid", "unparsable", "nontext"}

Time(v) == [raised |-> FALSE, v |-> v]
TimeRaised == [raised |-> TRUE, v |-> "now"]

\* ConversationParser._parse_datetime and AugmentDataExtractor._parse_datetime:
\* only ValueError is caught, so a value without endswith() raises
ParseDatetime(ts) ==
    IF ts \in {"missing", "empty"} THEN Time("now")
    ELSE IF ts = "valid" THEN Time("parsed")
    ELSE IF ts = "unparsable" THEN Time("now")
    ELSE TimeRaised

\* CursorAugmentExtractor._parse_datetime: every Exception is caught
CursorParseDatetime(ts) ==
    IF ts = "valid" THEN Time("parsed") ELSE Time("now")

(***************************************************************************)
(* ConversationParser._extract_workspace_files                             *)
(***************************************************************************)
\* a chunk is the pathName of its file, '' when it has none
HasPath(chunk) == chunk # <<>>

ExtractWorkspaceFiles(chat_item) ==
    SelectSeq(chat_item.workspace_file_chunks, HasPath)

(***************************************************************************)
(* ConversationParser._parse_message                                       *)
(***************************************************************************)
Message(role, content, timestamp, request_id, tool_uses, workspace_files) ==
    [role |-> role, content |-> content, timestamp |-> timestamp,
     request_id |-> request_id, tool_uses |-> tool_uses,
     workspace_files |-> workspace_files]

\* chat_item.get('request_id', '')
RequestId(chat_item) ==
    IF chat_item.has_request_id THEN chat_item.request_id ELSE <<>>

\* the user message of a chat item, if its request text is not blank
UserMessages(chat_item, timestamp) ==
    IF Strip(chat_item.request_message) # <<>>
    THEN <<Message("user", Strip(chat_item.request_message), timestamp,
                   RequestId(chat_item), <<>>, ExtractWorkspaceFiles(chat_item))>>
    ELSE <<>>

\* the assistant message of a chat item whose merged content is
\* complete_content
AssistantMessages(chat_item, complete_content, timestamp) ==
    IF (Strip(chat_item.response_text) # <<>> \/ chat_item.structured_output_nodes # <<>>)
       /\ Strip(complete_content) # <<>>
    THEN <<Message("assistant", complete_content, timestamp,
                   RequestId(chat_item), ExtractToolUses(chat_item), <<>>)>>
    ELSE <<>>

\* mutant: the user message is created without looking at its content
MessagesOfItemUnchecked(chat_item, timestamp) ==
    <<Message("user", Strip(chat_item.request_message), timestamp,
              RequestId(chat_item), <<>>, ExtractWorkspaceFiles(chat_item))>>

\* the list `messages` built by _parse_message for a chat item that is a
\* dict with a timestamp that parses
MessagesOfItem(chat_item, timestamp) ==
    UserMessages(chat_item, timestamp)
    \o AssistantMessages(chat_item,
                         MergeMessageContent(chat_item.response_text,
                                             ExtractStructuredContent(chat_item)),
                         timestamp)

\* an element of chatHistory: k = "dict" (item is the chat item), "json" (a
\* string that is the JSON text of item) or "other" (any other value)
Entry(k, item) == [k |-> k, item |-> item]

\* `return messages[0] if messages else None`: the message returned, as a
\* list of at most one element (None is the empty list)
FirstMessage(messages) == IF messages # <<>> THEN <<messages[1]>> ELSE <<>>

\* _parse_message once the timestamp has been read
ParseMessageAt(chat_item, timestamp) ==
    IF timestamp.raised THEN <<>>
    ELSE FirstMessage(MessagesOfItem(chat_item, timestamp.v))

\* _parse_message: an exception gives None
ParseMessage(entry) ==
    IF entry.k # "dict" THEN <<>>
    ELSE ParseMessageAt(entry.item, ParseDatetime(entry.item.timestamp))

(***************************************************************************)
(* Conversation records                                                    *)
(***************************************************************************)
\* one value of the conversations map.  k = "dict" (an object with the
\* fields below), "json" (a string that is the JSON text of that object),
\* "strbad" (a string that is no JSON) or "other" (a number, a list, null).
\* created, last: kinds of createdAtIso and lastInteractedAtIso.  hist_k =
\* "list" (chatHistory is the list hist), "missing" (no chatHistory) or
\* "nonlist" (chatHistory is a number or null).
ConvData(k, created, last, hist_k, hist, has_pinned, pinned, has_shareable, shareable) ==
    [k |-> k, created |-> created, last |-> last, hist_k |-> hist_k, hist |-> hist,
     has_pinned |-> has_pinned, pinned |-> pinned,
     has_shareable |-> has_shareable, shareable |-> shareable]

\* conv_data.get('chatHistory', [])
ChatHistory(conv_data) == IF conv_data.hist_k = "list" THEN conv_data.hist ELSE <<>>

AugmentMessage(role, content, timestamp, request_id) ==
    [role |-> role, content |-> content, timestamp |-> timestamp,
     request_id |-> request_id]

\* Message -> AugmentMessage
AsAugmentMessage(m) == AugmentMessage(m.role, m.content, m.timestamp, m.request_id)

\* `if parsed_message:` and the conversion of the message
AsAugmentMessages(parsed_message) ==
    [i \in 1..Len(parsed_message) |-> AsAugmentMessage(parsed_message[i])]

AugmentConversation(id, created_at, last, messages, is_pinned, is_shareable, workspace_id) ==
    [id |-> id, created_at |-> created_at, last_interacted_at |-> last,
     messages |-> messages, is_pinned |-> is_pinned, is_shareable |-> is_shareable,
     workspace_id |-> workspace_id]

Conversation(id, created_at, last, messages, is_pinned, is_shareable) ==
    [id |-> id, created_at |-> created_at, last_interacted_at |-> last,
     messages |-> messages, is_pinned |-> is_pinned, is_shareable |-> is_shareable]

\* conv_data.get('isPinned', False) and conv_data.get('isShareable', default)
IsPinned(conv_data) == IF conv_data.has_pinned THEN conv_data.pinned ELSE FALSE
IsShareable(conv_data, default) ==
    IF conv_data.has_shareable THEN conv_data.shareable ELSE default

(***************************************************************************)
(* ConversationParser._parse_single_conversation                           *)
(* The conversation returned, as a list of at most one element.            *)
(***************************************************************************)
RECURSIVE ParserMessages(_)
ParserMessages(chat_history) ==
    IF chat_history = <<>> THEN <<>>
    ELSE ParseMessage(Head(chat_history)) \o ParserMessages(Tail(chat_history))

ParseSingleConversation(conv_id, conv_data) ==
    IF conv_data.k # "dict" THEN <<>>
    ELSE IF ParseDatetime(conv_data.created).raised
            \/ ParseDatetime(conv_data.last).raised THEN <<>>
    ELSE IF conv_data.hist_k = "nonlist" THEN <<>>
    ELSE <<Conversation(conv_id, ParseDatetime(conv_data.created).v,
                        ParseDatetime(conv_data.last).v,
                        ParserMessages(ChatHistory(conv_data)),
                        IsPinned(conv_data), IsShareable(conv_data, FALSE))>>

(***************************************************************************)
(* AugmentDataExtractor._parse_conversation (VSCode)                       *)
(***************************************************************************)
RECURSIVE VscodeMessages(_)
VscodeMessages(chat_history) ==
    IF chat_history = <<>> THEN <<>>
    ELSE AsAugmentMessages(ParseMessage(Head(chat_history)))
         \o VscodeMessages(Tail(chat_history))

VscodeParseConversation(conv_id, conv_data, workspace_id) ==
    IF conv_data.k # "dict" THEN <<>>
    ELSE IF ParseDatetime(conv_data.created).raised
            \/ ParseDatetime(conv_data.last).raised THEN <<>>
    ELSE IF conv_data.hist_k = "nonlist" THEN <<>>
    ELSE <<AugmentConversation(conv_id, ParseDatetime(conv_data.created).v,
                               ParseDatetime(conv_data.last).v,
                               VscodeMessages(ChatHistory(conv_data)),
                               IsPinned(conv_data), IsShareable(conv_data, FALSE),
                               workspace_id)>>

(***************************************************************************)
(* CursorAugmentExtractor._parse_conversation                              *)
(***************************************************************************)
\* the assistant message of a turn whose merged content is complete_content
CursorAssistantMessages(complete_content, timestamp, request_id) ==
    IF Strip(complete_content) # <<>>
    THEN <<AugmentMessage("assistant", complete_content, timestamp, request_id)>>
    ELSE <<>>

CursorUserMessages(user_message, timestamp, request_id) ==
    IF user_message # <<>>
    THEN <<AugmentMessage("user", user_message, timestamp, request_id)>>
    ELSE <<>>

\* the body of the loop over chat_history for a chat item that is an object
CursorMessagesOfItem(chat_item, timestamp) ==
    CursorUserMessages(Strip(chat_item.request_message), timestamp, RequestId(chat_item))
    \o CursorAssistantMessages(
           MergeMessageContent(Strip(chat_item.response_text),
                               ExtractStructuredContent(chat_item)),
           timestamp, RequestId(chat_item))

\* the body of the loop over chat_history for one element: a string is
\* decoded first, what is no object then is skipped
CursorMessagesOfEntry(entry) ==
    IF entry.k = "other" THEN <<>>
    ELSE CursorMessagesOfItem(entry.item, CursorParseDatetime(entry.item.timestamp).v)

\* mutant: the loop over chat_history runs from the last turn to the first
RECURSIVE CursorMessagesReversed(_)
CursorMessagesReversed(chat_history) ==
    IF chat_history = <<>> THEN <<>>
    ELSE CursorMessagesReversed(Tail(chat_history)) \o CursorMessagesOfEntry(Head(chat_history))

RECURSIVE CursorMessages(_)
CursorMessages(chat_history) ==
    IF chat_history = <<>> THEN <<>>
    ELSE CursorMessagesOfEntry(Head(chat_history)) \o CursorMessages(Tail(chat_history))

\* conv_data is what the caller passes: a string has been decoded by then
CursorParseConversation(conv_id, conv_data, workspace_id) ==
    IF conv_data.k # "dict" THEN <<>>
    ELSE IF conv_data.hist_k = "nonlist" THEN <<>>
    ELSE <<AugmentConversation(conv_id, CursorParseDatetime(conv_data.created).v,
                               CursorParseDatetime(conv_data.last).v,
                               CursorMessages(ChatHistory(conv_data)),
                               IsPinned(conv_data), IsShareable(conv_data, TRUE),
                               workspace_id)>>

(***************************************************************************)
(* Store containers                                                        *)
(***************************************************************************)
\* one container.  readable = FALSE: the store cannot be opened or has not
\* the expected table.  row = "absent" (no chat-state entry), "empty" (its
\* value is empty) or "value".  top = "bad" (the value is no JSON) or "obj".
\* ws, the webviewState field of the object: "absent", "str" (a string that
\* is the JSON text of the state), "strbad" (a string that is no JSON) or
\* "dict" (the state itself).  convs_k, the conversations field of the
\* state: "absent", "dict" (the map convs, a list of id and value in the
\* order of the map) or "other" (a non-empty list).
Store(readable, row, top, ws, convs_k, convs) ==
    [readable |-> readable, row |-> row, top |-> top, ws |-> ws,
     convs_k |-> convs_k, convs |-> convs]

Item(id, data) == [id |-> id, data |-> data]

\* `if conversation and conversation.messages:` the conversation is appended
Retained(conversation) ==
    IF conversation # <<>> /\ conversation[1].messages # <<>> THEN conversation ELSE <<>>

\* what an extraction returns: the conversations, or raised = TRUE when an
\* exception reaches the caller
Returned(conversations) == [raised |-> FALSE, conversations |-> conversations]
RaisedToCaller == [raised |-> TRUE, conversations |-> <<>>]

(***************************************************************************)
(* AugmentDataExtractor._extract_conversations_from_database (VSCode)      *)
(***************************************************************************)
RECURSIVE VscodeRecords(_, _)
VscodeRecords(items, workspace_id) ==
    IF items = <<>> THEN <<>>
    ELSE Retained(VscodeParseConversation(Head(items).id, Head(items).data, workspace_id))
         \o VscodeRecords(Tail(items), workspace_id)

VscodeExtractFromDatabase(store, workspace_id) ==
    IF ~store.readable THEN Returned(<<>>)
    ELSE IF store.row # "value" THEN Returned(<<>>)
    ELSE IF store.top # "obj" THEN Returned(<<>>)
    ELSE IF store.ws # "str" THEN Returned(<<>>)
    ELSE IF store.convs_k # "dict" THEN Returned(<<>>)
    ELSE Returned(VscodeRecords(store.convs, workspace_id))

(***************************************************************************)
(* CursorAugmentExtractor._extract_conversations_from_database             *)
(***************************************************************************)
\* the body of the loop over the conversations map for one record
CursorRecord(item, workspace_id) ==
    IF item.data.k = "strbad" THEN <<>>
    ELSE Retained(CursorParseConversation(
                      item.id,
                      IF item.data.k = "json" THEN [item.data EXCEPT !.k = "dict"]
                      ELSE item.data,
                      workspace_id))

RECURSIVE CursorRecords(_, _)
CursorRecords(items, workspace_id) ==
    IF items = <<>> THEN <<>>
    ELSE CursorRecord(Head(items), workspace_id)
         \o CursorRecords(Tail(items), workspace_id)

CursorExtractFromDatabase(store, workspace_id) ==
    IF ~store.readable THEN Returned(<<>>)
    ELSE IF store.row # "value" THEN Returned(<<>>)
    ELSE IF store.top # "obj" THEN Returned(<<>>)
    ELSE IF store.ws \in {"absent", "strbad"} THEN Returned(<<>>)
    ELSE IF store.convs_k # "dict" THEN Returned(<<>>)
    ELSE Returned(CursorRecords(store.convs, workspace_id))

(***************************************************************************)
(* ConversationParser.parse_conversations                                  *)
(***************************************************************************)
\* the loop over conversations_data: a record that fails is logged and the
\* loop goes on
RECURSIVE ParserRecords(_)
ParserRecords(items) ==
    IF items = <<>> THEN <<>>
    ELSE Retained(ParseSingleConversation(Head(items).id, Head(items).data))
         \o ParserRecords(Tail(items))

\* raw_data is what the KV reader and the decoder give for the store: no
\* main key without a row, parsed_data None for an empty value, the raw
\* string for a value that is no JSON, webviewState decoded when it is a
\* JSON string and left a string when it is not
ParseConversations(store) ==
    IF ~store.readable \/ store.row = "absent" THEN Returned(<<>>)
    ELSE IF store.row = "empty" THEN Returned(<<>>)
    ELSE IF store.top # "obj" THEN RaisedToCaller
    ELSE IF store.ws = "absent" THEN Returned(<<>>)
    ELSE IF store.ws = "strbad" THEN RaisedToCaller
    ELSE IF store.convs_k = "absent" THEN Returned(<<>>)
    ELSE IF store.convs_k = "other" THEN RaisedToCaller
    ELSE Returned(ParserRecords(store.convs))

(***************************************************************************)
(* IdeaAugmentExtractor.extract_augment_conversations, one project.  The   *)
(* CHAT_STATE value holds the conversations map itself, without the        *)
(* webviewState indirection.                                               *)
(***************************************************************************)
IdeaConversation(conv, workspace_id) ==
    [id |-> conv.id, created_at |-> conv.created_at,
     last_interacted_at |-> conv.last_interacted_at, messages |-> conv.messages,
     is_pinned |-> conv.is_pinned, is_shareable |-> conv.is_shareable,
     workspace_id |-> workspace_id]

\* `if parsed_conv:` the conversation is appended, whatever its messages
IdeaConversations(parsed_conv, workspace_id) ==
    [i \in 1..Len(parsed_conv) |-> IdeaConversation(parsed_conv[i], workspace_id)]

RECURSIVE IdeaRecords(_, _)
IdeaRecords(items, workspace_id) ==
    IF items = <<>> THEN <<>>
    ELSE IdeaConversations(ParseSingleConversation(Head(items).id, Head(items).data),
                           workspace_id)
         \o IdeaRecords(Tail(items), workspace_id)

IdeaExtract(store, workspace_id) ==
    IF ~store.readable THEN Returned(<<>>)
    ELSE IF store.row # "value" THEN Returned(<<>>)
    ELSE IF store.top # "obj" THEN Returned(<<>>)
    ELSE IF store.convs_k # "dict" THEN Returned(<<>>)
    ELSE Returned(IdeaRecords(store.convs, workspace_id))

Hosts == {"vscode", "cursor", "idea", "parser"}

\* the extraction of one container by the extractor of a host
Extract(host, store, workspace_id) ==
    IF host = "vscode" THEN VscodeExtractFromDatabase(store, workspace_id)
    ELSE IF host = "cursor" THEN CursorExtractFromDatabase(store, workspace_id)
    ELSE IF host = "idea" THEN IdeaExtract(store, workspace_id)
    ELSE ParseConversations(store)

\* the assembly of one conversation record by the assembler of a host
Assemble(host, conv_id, conv_data, workspace_id) ==
    IF host = "vscode" THEN VscodeParseConversation(conv_id, conv_data, workspace_id)
    ELSE IF host = "cursor" THEN CursorParseConversation(conv_id, conv_data, workspace_id)
    ELSE ParseSingleConversation(conv_id, conv_data)

(***************************************************************************)
(* Containers of a host and the queries on them (VSCode and Cursor)        *)
(***************************************************************************)
\* one container (a state.vscdb file).  access = "ok"; "noopen":
\* sqlite3.connect raises; "notable": the file opens and the query raises
\* (no ItemTable, no database); "lost": the file answers while the
\* containers are searched and the query raises when the conversations are
\* extracted.  other_keys: the store has other keys that hold "augment".
\* store: the chat-state row of the container.
Container(access, other_keys, store) ==
    [access |-> access, other_keys |-> other_keys, store |-> store]

\* what connect and execute do: "noopen" (connect raised), "raises" (the
\* connection is open and execute raised) or "answers"
QueryOutcome(container, fn) ==
    IF container.access = "noopen" THEN "noopen"
    ELSE IF container.access = "notable" THEN "raises"
    ELSE IF container.access = "lost" /\ fn = "extract" THEN "raises"
    ELSE "answers"

\* a connection: the call that opened it and the container
Connection(fn, i) == [fn |-> fn, container |-> i]

\* the connections a call on container i can leave open.  conn.close() is
\* reached only when execute and fetchone return; when execute raises the
\* handler returns without closing, and the connection stays open until
\* the garbage collector finalizes it, which may be before or after the
\* call returns.
LeftOpen(outcome, fn, i) ==
    IF outcome = "raises" THEN {{}, {Connection(fn, i)}} ELSE {{}}

\* mutant: the store is opened for writing and a row is deleted
StoreQueryWriting(fn) == [mode |-> "rwc", statement |-> "DELETE"]

\* how a container query opens the store and what it executes:
\* sqlite3.connect("file:...?mode=ro", uri=True) and a SELECT
StoreQuery(fn) == [mode |-> "ro", statement |-> "SELECT"]

\* the store after a query that answered: a SELECT leaves it as it is, and
\* so does any statement on a read-only connection
StoreAfter(store, query) ==
    IF query.statement = "SELECT" \/ query.mode = "ro" THEN store
    ELSE [store EXCEPT !.row = "absent"]

\* the container after a call of fn on it
ContainerAfter(container, fn) ==
    IF QueryOutcome(container, fn) # "answers" THEN container
    ELSE [container EXCEPT !.store = StoreAfter(@, StoreQuery(fn))]

\* COUNT(*) > 0: VSCode counts the keys LIKE '%augment%', Cursor the
\* chat-state key
HasAugmentKey(host, container) ==
    IF host = "vscode"
    THEN container.store.row # "absent" \/ container.other_keys
    ELSE container.store.row # "absent"

\* _has_augment_data
HasAugmentData(host, container) ==
    IF QueryOutcome(container, "has") # "answers" THEN FALSE
    ELSE HasAugmentKey(host, container)

\* the row the extraction reads: none when the query did not answer
StoreRead(container) ==
    [container.store EXCEPT !.readable = (QueryOutcome(container, "extract") = "answers")]

\* mutant: the conversations are returned without the id of their container
ExtractConversationsUnowned(host, container, workspace_id) ==
    IF host = "vscode"
    THEN VscodeExtractFromDatabase(StoreRead(container), "unknown").conversations
    ELSE CursorExtractFromDatabase(StoreRead(container), "unknown").conversations

\* _extract_conversations_from_database of a host
ExtractConversationsFromDatabase(host, container, workspace_id) ==
    IF host = "vscode"
    THEN VscodeExtractFromDatabase(StoreRead(container), workspace_id).conversations
    ELSE CursorExtractFromDatabase(StoreRead(container), workspace_id).conversations

\* db_info['workspace_id'] of the i-th container
WorkspaceId(i) == <<"w1", "w2", "w3", "w4", "w5", "w6", "w7", "w8", "w9">>[i]

\* the local variables of extract_augment_conversations: the next
\* container, augment_databases (positions of the containers found) and
\* all_conversations
Locals(i, augment_databases, all_conversations) ==
    [i |-> i, augment_databases |-> augment_databases,
     all_conversations |-> all_conversations]

\* augment_databases.append(workspace_info) when the container has data
DatabasesAfter(augment_databases, i, found) ==
    IF found THEN Append(augment_databases, i) ELSE augment_databases

\* mutant: the conversations of a container replace those collected so far
AllConversationsReplaced(all_conversations, conversations) == conversations

\* all_conversations.extend(conversations)
AllConversationsAfter(all_conversations, conversations) ==
    all_conversations \o conversations

(***************************************************************************)
(* The converters to the presentation format                               *)
(***************************************************************************)
\* datetime.timestamp(): the epoch number of a datetime
Epoch(t) == [k |-> "epoch", of |-> t]

\* datetime.isoformat(): the ISO text of a datetime
IsoFormat(t) == [k |-> "iso", of |-> t]

\* conv.workspace_id or 'unknown'
WorkspaceOf(conv) == IF conv.workspace_id = "" THEN "unknown" ELSE conv.workspace_id

\* chat_data: the fields that carry the identifier, the times, the owner
\* and the messages
ChatData(conv, messages, source) ==
    [session |-> [composerId |-> conv.id, createdAt |-> Epoch(conv.created_at),
                  lastUpdatedAt |-> Epoch(conv.last_interacted_at)],
     messages |-> messages,
     date |-> Epoch(conv.created_at),
     session_id |-> conv.id,
     workspace_id |-> WorkspaceOf(conv),
     source |-> source]

\* the message dict of AugmentDataExtractor.convert_to_cursor_format
VscodeMessageData(msg) ==
    [role |-> msg.role, content |-> msg.content, timestamp |-> Epoch(msg.timestamp)]

\* the message dict of CursorAugmentExtractor.convert_to_cursor_view_format
CursorMessageData(msg) ==
    [role |-> msg.role, content |-> msg.content, timestamp |-> IsoFormat(msg.timestamp)]

\* the message dict of IdeaAugmentExtractor.convert_to_cursor_view_format:
\* tool_uses and workspace_files are set when they are not empty
IdeaMessageData(msg) ==
    [role |-> msg.role, content |-> msg.content, timestamp |-> IsoFormat(msg.timestamp),
     request_id |-> msg.request_id, tool_uses |-> msg.tool_uses,
     workspace_files |-> msg.workspace_files]

MessagesData(host, messages) ==
    [i \in 1..Len(messages) |->
        IF host = "vscode" THEN VscodeMessageData(messages[i])
        ELSE IF host = "cursor" THEN CursorMessageData(messages[i])
        ELSE IdeaMessageData(messages[i])]

SourceOf(host) ==
    IF host = "vscode" THEN "augment"
    ELSE IF host = "cursor" THEN "cursor-augment"
    ELSE "idea-augment"

\* convert_to_cursor_format / convert_to_cursor_view_format of a host
ConvertToCursorFormat(host, conversations) ==
    [i \in 1..Len(conversations) |->
        ChatData(conversations[i], MessagesData(host, conversations[i].messages),
                 SourceOf(host))]

(***************************************************************************)
(* AugmentDataExtractor._parse_json_value                                  *)
(***************************************************************************)
\* a text as json.loads sees it.  k = "text": the characters `text`, which
\* are no JSON (JSONDecodeError); "unloadable": a JSON text json.loads gives
\* up on with another exception (RecursionError for nesting beyond the
\* recursion limit, ValueError for an integer literal beyond the digit
\* limit); "scalar": the JSON text of a number; "object": the JSON text of
\* an object whose webviewState is ws_k = "absent", "str" (the string
\* ws_text, which is no JSON), "strjson" (a string that is the JSON text of
\* the state), "strunloadable" (a string json.loads gives up on) or "dict"
\* (the state itself).
Document(k, text, ws_k, ws_text) ==
    [k |-> k, text |-> text, ws_k |-> ws_k, ws_text |-> ws_text, other_k |-> "absent"]

\* the object with one more field, whose value is other_k = "strjson" (a
\* string that is the JSON text of an object), "str" (a string that is no
\* JSON) or "dict" (an object)
WithOtherField(doc, other_k) == [doc EXCEPT !.other_k = other_k]

\* a value read from the store: k = "none", "int" (the number n), "str" (the
\* text doc), "bytes" (the UTF-8 encoding of doc) or "badbytes" (non-empty
\* bytes that are no UTF-8)
RawValue(k, n, doc) == [k |-> k, n |-> n, doc |-> doc]

NoDocument == Document("text", <<>>, "absent", <<>>)

\* what _parse_json_value gives back: None, the number, a string, or the
\* decoded document; raised = TRUE: an exception leaves the function
NoData == [raised |-> FALSE, k |-> "none", n |-> 0, doc |-> NoDocument]
Number(n) == [raised |-> FALSE, k |-> "int", n |-> n, doc |-> NoDocument]
SameString(doc) == [raised |-> FALSE, k |-> "str", n |-> 0, doc |-> doc]
Decoded(doc) == [raised |-> FALSE, k |-> "decoded", n |-> 0, doc |-> doc]
DecodeRaised == [raised |-> TRUE, k |-> "none", n |-> 0, doc |-> NoDocument]

\* mutant: the second pass decodes every field that is a JSON string
SecondPassEveryField(parsed) ==
    [parsed EXCEPT !.ws_k = IF @ = "strjson" THEN "dict" ELSE @,
                   !.other_k = IF @ = "strjson" THEN "dict" ELSE @]

\* parsed['webviewState'] = json.loads(webview_state) when the field is a
\* string that is JSON; a string that is no JSON stays
SecondPass(parsed) ==
    IF parsed.ws_k = "strjson" THEN [parsed EXCEPT !.ws_k = "dict"] ELSE parsed

\* `not value`: None, 0, '' and b'' are falsy
Falsy(value) ==
    \/ value.k = "none"
    \/ value.k = "int" /\ value.n = 0
    \/ value.k \in {"str", "bytes"} /\ value.doc.k = "text" /\ value.doc.text = <<>>

ParseJsonValue(value) ==
    IF Falsy(value) THEN NoData
    ELSE IF value.k = "badbytes" THEN NoData
    ELSE IF value.k = "int" THEN Number(value.n)
    ELSE LET doc == value.doc
         IN  IF doc.k = "text" THEN SameString(doc)
             ELSE IF doc.k = "unloadable" THEN DecodeRaised
             ELSE IF doc.k = "scalar" THEN Decoded(doc)
             ELSE IF doc.ws_k = "strunloadable" THEN DecodeRaised
             ELSE Decoded(SecondPass(doc))

\* the sequences of at most n elements of S
RECURSIVE SeqsUpTo(_, _)
SeqsUpTo(S, n) ==
    IF n = 0 THEN {<<>>}
    ELSE LET shorter == SeqsUpTo(S, n - 1)
         IN  shorter \cup {<<x>> \o t : x \in S, t \in shorter}

A == <<"a">>
B == <<"b">>

MermaidContent(k, d, ti) == Content(k, <<>>, MermaidTag, d, ti)
OtherJsonContent(k) == Content(k, <<>>, OtherTag, A, B)

TextNode(id, text) == OutputNode(TRUE, id, TextType, TextContent(text), FALSE, NoToolUse)
ToolNode(id, name, tid, input) ==
    OutputNode(TRUE, id, ToolUseType, NoContent, TRUE, ToolUsePayload(name, tid, input))

IdX == <<"x">>
IdY == <<"y">>

\* fragments that occur in any number and any order
CoreNodes ==
    {TextNode(id, t) : id \in {1, 2}, t \in {A, B}}
    \cup {ToolNode(id, "render-mermaid", IdX, InputJson("obj", A, B)) : id \in {1, 2}}
    \cup {OutputNode(FALSE, 0, TextType, TextContent(B), FALSE, NoToolUse)}

\* fragments of which a list holds at most one
RareNodes ==
    {OutputNode(TRUE, 1, TextType, c, FALSE, NoToolUse) :
        c \in {TextContent(<<" ">>), TextContent(<<" ", "a", " ">>), NoContent,
               MermaidContent("json", A, B), MermaidContent("json", A, <<>>),
               MermaidContent("json", <<>>, B), OtherJsonContent("json"),
               MermaidContent("dict", A, B)}}
    \cup {ToolNode(1, "render-mermaid", IdY, in) :
        in \in {InputJson("obj", A, <<>>), InputJson("obj", <<>>, B),
                InputJson("bad", <<>>, <<>>), InputJson("empty", <<>>, <<>>),
                InputJson("nonobj", <<>>, <<>>)}}
    \cup {ToolNode(1, "launch-process", IdY, InputJson("obj", A, B)),
          OutputNode(TRUE, 1, ToolUseType, TextContent(A), FALSE, NoToolUse)}
    \cup {OutputNode(TRUE, 1, 2, c, FALSE, NoToolUse) :
        c \in {TextContent(A), TextContent(<<" ">>), NoContent,
               MermaidContent("json", A, B), MermaidContent("dict", A, B),
               MermaidContent("dict", <<>>, B), OtherJsonContent("json"),
               OtherJsonContent("dict")}}

OutputNodeLists ==
    SeqsUpTo(CoreNodes, MaxNodes)
    \cup {<<n>> \o l : n \in RareNodes, l \in SeqsUpTo(CoreNodes, MaxNodes - 1)}
    \cup {l \o <<n>> : n \in RareNodes, l \in SeqsUpTo(CoreNodes, MaxNodes - 1)}

RequestNodeLists ==
    {<<>>,
     <<RequestNode(ToolResultType, MermaidContent("json", B, <<>>))>>,
     <<RequestNode(ToolResultType, TextContent(A))>>,
     <<RequestNode(TextType, MermaidContent("json", B, <<>>))>>}

NoStates == <<>>

\* chat items whose fragment lists vary
StructuredItems ==
    {ChatItem(TRUE, <<"r">>, "valid", A, <<>>, out, req, NoStates, <<>>) :
        out \in OutputNodeLists, req \in RequestNodeLists}

\* outcomes of the side-table; has_result = FALSE: the entry has no "result"
Outcome(has_result, text, isError) ==
    [has_result |-> has_result, text |-> text, isError |-> isError]

Outcomes ==
    {Outcome(TRUE, <<"o", "k">>, FALSE), Outcome(TRUE, <<"n", "o">>, TRUE),
     Outcome(FALSE, <<>>, FALSE)}

StateKeys ==
    {<<"r", ";", "x">>, <<"r", ";", "y">>, <<"q", ";", "x">>,
     <<"N", "o", "n", "e", ";", "x">>, <<"x">>, <<"r", ";", "x", ";">>}

StateTables ==
    {NoStates}
    \cup {k :> o : k \in StateKeys, o \in Outcomes}
    \cup {(<<"r", ";", "x">> :> o1) @@ (<<"r", ";", "y">> :> o2) :
            o1 \in Outcomes, o2 \in Outcomes}

ToolUseNodes ==
    {ToolNode(1, "launch-process", IdX, InputJson("bad", <<>>, <<>>)),
     ToolNode(2, "render-mermaid", IdY, InputJson("obj", A, B)),
     OutputNode(TRUE, 1, ToolUseType, NoContent, FALSE, NoToolUse),
     TextNode(1, A)}

\* chat items whose tool invocations, request id and side-table vary
ToolUseItems ==
    {ChatItem(has_rid, rid, "valid", A, B, out, <<>>, states, <<>>) :
        has_rid \in {TRUE}, rid \in {<<"r">>, <<"q">>},
        out \in SeqsUpTo(ToolUseNodes, MaxNodes), states \in StateTables}
    \cup {ChatItem(FALSE, <<>>, "valid", A, B, out, <<>>, states, <<>>) :
        out \in SeqsUpTo(ToolUseNodes, MaxNodes), states \in StateTables}

(***************************************************************************)
(* Chat histories, conversation records and stores the assemblers are      *)
(* applied to                                                              *)
(***************************************************************************)
R1 == <<"r">>

PlainItem(ts, request, response) ==
    ChatItem(TRUE, R1, ts, request, response, <<>>, <<>>, NoStates, <<>>)

\* request and response both present
FullItem == PlainItem("valid", A, B)

HistoryEntries ==
    {Entry("dict", FullItem),
     \* the structured text contains the response text
     Entry("dict", ChatItem(TRUE, R1, "valid", A, B, <<TextNode(1, <<"b", " ", "a">>)>>,
                            <<>>, NoStates, <<>>)),
     Entry("dict", PlainItem("missing", <<" ", "a", " ">>, <<>>)),
     Entry("dict", PlainItem("valid", <<" ">>, <<"b", " ">>)),
     Entry("dict", PlainItem("valid", <<>>, <<" ">>)),
     Entry("dict", PlainItem("nontext", A, B)),
     \* only a tool invocation that is no diagram
     Entry("dict", ChatItem(TRUE, R1, "valid", <<>>, <<>>,
                            <<ToolNode(1, "launch-process", IdX, InputJson("bad", <<>>, <<>>))>>,
                            <<>>, NoStates, <<>>)),
     \* only a diagram among the request-side fragments
     Entry("dict", ChatItem(TRUE, R1, "valid", <<>>, <<>>, <<>>,
                            <<RequestNode(ToolResultType, MermaidContent("json", B, <<>>))>>,
                            NoStates, <<>>)),
     \* a response text and a diagram among the request-side fragments
     Entry("dict", ChatItem(TRUE, R1, "valid", <<>>, B, <<>>,
                            <<RequestNode(ToolResultType, MermaidContent("json", A, <<>>))>>,
                            NoStates, <<>>)),
     \* a tool invocation with its outcome, and referenced files
     Entry("dict", ChatItem(FALSE, <<>>, "unparsable", A, B,
                            <<ToolNode(1, "launch-process", IdX, InputJson("bad", <<>>, <<>>))>>,
                            <<>>, <<"N", "o", "n", "e", ";", "x">> :> Outcome(TRUE, <<"o", "k">>, FALSE),
                            <<<<"f">>, <<>>>>)),
     Entry("json", FullItem),
     Entry("other", FullItem)}

Histories == SeqsUpTo(HistoryEntries, MaxTurns)

\* a turn that gives no message
SkippedEntry == Entry("dict", PlainItem("valid", <<>>, <<" ">>))

\* chatHistory values with a turn that gives no message between two others
SkipHistories ==
    {<<x, SkippedEntry, y>> :
        x \in {Entry("dict", FullItem), Entry("dict", PlainItem("valid", B, A)), SkippedEntry},
        y \in {Entry("dict", FullItem), Entry("dict", PlainItem("valid", B, A)), SkippedEntry}}

DictRecord(created, last, hist_k, hist) ==
    ConvData("dict", created, last, hist_k, hist, FALSE, FALSE, FALSE, FALSE)

\* conversation records whose history varies, whose header varies, and
\* records that are no object
ConvRecords ==
    {DictRecord("valid", "valid", "list", h) : h \in Histories}
    \cup {DictRecord(c, l, "list", <<Entry("dict", FullItem)>>) :
            c \in TimestampKinds, l \in TimestampKinds}
    \cup {ConvData("dict", "valid", "valid", "list", <<Entry("dict", FullItem)>>,
                   hp, p, hs, sh) :
            hp \in BOOLEAN, p \in BOOLEAN, hs \in BOOLEAN, sh \in BOOLEAN}
    \cup {DictRecord("valid", "valid", "list", h) : h \in SkipHistories}
    \cup {DictRecord("valid", "valid", k, <<>>) : k \in {"missing", "nonlist"}}
    \cup {ConvData(k, "valid", "valid", "list", <<Entry("dict", FullItem)>>,
                   FALSE, FALSE, FALSE, FALSE) : k \in {"json", "strbad", "other"}}

\* the records the conversations maps are made of
MapRecords ==
    {DictRecord("valid", "valid", "list", <<Entry("dict", FullItem)>>),
     DictRecord("missing", "unparsable", "list",
                <<Entry("dict", PlainItem("valid", <<" ">>, <<"b", " ">>)),
                  Entry("dict", PlainItem("valid", A, <<>>))>>),
     DictRecord("valid", "valid", "list", <<>>),
     DictRecord("valid", "valid", "list", <<Entry("dict", PlainItem("valid", <<>>, <<" ">>))>>),
     DictRecord("valid", "valid", "missing", <<>>),
     DictRecord("valid", "valid", "nonlist", <<>>),
     DictRecord("nontext", "valid", "list", <<Entry("dict", FullItem)>>),
     ConvData("json", "valid", "valid", "list", <<Entry("dict", FullItem)>>,
              FALSE, FALSE, FALSE, FALSE),
     ConvData("strbad", "valid", "valid", "list", <<>>, FALSE, FALSE, FALSE, FALSE),
     ConvData("other", "valid", "valid", "list", <<>>, FALSE, FALSE, FALSE, FALSE)}

\* the id of the i-th record of a map
ConvId(i) == <<"c", <<"1", "2", "3", "4", "5", "6", "7", "8", "9">>[i]>>

\* the maps of at most MaxConvs records: the keys of a map are distinct
ConvMaps ==
    {[i \in 1..Len(rs) |-> Item(ConvId(i), rs[i])] : rs \in SeqsUpTo(MapRecords, MaxConvs)}

\* stores that hold a conversations map, and stores that hold none
Stores ==
    {Store(TRUE, "value", "obj", ws, "dict", m) : ws \in {"str", "dict"}, m \in ConvMaps}
    \cup {Store(FALSE, "absent", "bad", "absent", "absent", <<>>),
          Store(TRUE, "absent", "bad", "absent", "absent", <<>>),
          Store(TRUE, "empty", "bad", "absent", "absent", <<>>),
          Store(TRUE, "value", "bad", "absent", "absent", <<>>),
          Store(TRUE, "value", "obj", "absent", "absent", <<>>),
          Store(TRUE, "value", "obj", "strbad", "absent", <<>>),
          Store(TRUE, "value", "obj", "str", "absent", <<>>),
          Store(TRUE, "value", "obj", "dict", "other", <<>>)}

W1 == "w1"

\* chat items given to _parse_message
MessageEntries ==
    {Entry(k, ChatItem(has_rid, R1, ts, request, response, out, req, NoStates, <<>>)) :
        k \in {"dict"}, has_rid \in BOOLEAN, ts \in TimestampKinds,
        request \in {<<>>, <<" ">>, A, <<" ", "a">>},
        response \in {<<>>, <<" ">>, B, <<"b", " ">>},
        out \in {<<>>, <<TextNode(1, <<"b", " ", "a">>)>>, <<TextNode(1, <<" ">>)>>,
                 <<ToolNode(1, "launch-process", IdX, InputJson("bad", <<>>, <<>>))>>},
        req \in {<<>>, <<RequestNode(ToolResultType, MermaidContent("json", B, <<>>))>>}}
    \cup {Entry(k, FullItem) : k \in {"json", "other"}}
    \cup {Entry("dict",
                 ChatItem(TRUE, R1, "valid", request, B,
                          <<ToolNode(2, "launch-process", IdX, InputJson("bad", <<>>, <<>>)),
                            ToolNode(1, "render-mermaid", IdY, InputJson("obj", A, B))>>,
                          <<>>, NoStates, chunks)) :
            request \in {<<>>, A}, chunks \in {<<>>, <<<<"f">>, <<>>>>}}

\* the texts and values given to _parse_json_value
Documents ==
    {Document("text", t, "absent", <<>>) : t \in Texts}
    \cup {Document("unloadable", <<>>, "absent", <<>>),
          Document("scalar", <<>>, "absent", <<>>)}
    \cup {Document("object", <<>>, k, <<>>) :
            k \in {"absent", "strjson", "strunloadable", "dict"}}
    \cup {Document("object", <<>>, "str", t) : t \in {<<>>, <<" ">>, A, <<"a", "b">>}}
    \cup {WithOtherField(Document("object", <<>>, k, <<>>), o) :
            k \in {"absent", "strjson", "strunloadable", "dict"},
            o \in {"strjson", "str", "dict"}}
    \cup {WithOtherField(Document("object", <<>>, "str", A), o) :
            o \in {"strjson", "str", "dict"}}

RawValues ==
    {RawValue(k, 0, d) : k \in {"str", "bytes"}, d \in Documents}
    \cup {RawValue("none", 0, NoDocument), RawValue("badbytes", 0, NoDocument),
          RawValue("int", 0, NoDocument), RawValue("int", 1, NoDocument)}

(***************************************************************************)
(* ConfigManager: the path configuration                                   *)
(***************************************************************************)
\* the keys of DEFAULT_PATHS
DataSources == {"cursor", "augment", "cursor-augment", "idea-augment", "pycharm-augment"}

None == "None"

DefaultPaths == [data_source \in DataSources |-> None]

\* the ConfigManager: _config["paths"], and the paths in the settings file
Config(paths, file) == [paths |-> paths, file |-> file]

\* what a setter gives back: its return value and the object after the call
SetResult(ok, config) == [ok |-> ok, config |-> config]

\* _save_config: the file is written, or the write fails and False is
\* returned
SaveConfig(config, writable) ==
    SetResult(writable, IF writable THEN [config EXCEPT !.file = config.paths] ELSE config)

\* set_path
SetPath(config, data_source, path, writable) ==
    IF data_source \notin DataSources THEN SetResult(FALSE, config)
    ELSE SaveConfig([config EXCEPT !.paths[data_source] = path], writable)

\* self._config["paths"].update(paths)
Updated(old, paths) ==
    [data_source \in DOMAIN old |->
        IF data_source \in DOMAIN paths THEN paths[data_source] ELSE old[data_source]]

\* set_all_paths
SetAllPaths(config, paths, writable) ==
    IF \E data_source \in DOMAIN paths : data_source \notin DataSources
    THEN SetResult(FALSE, config)
    ELSE SaveConfig([config EXCEPT !.paths = Updated(@, paths)], writable)

\* get_all_paths
GetAllPaths(config) == config.paths

(***************************************************************************)
(* AugmentDataExtractor: the key-value reader                              *)
(***************************************************************************)
\* the class defines no method _connect_db, and the module does not import
\* sqlite3
HasConnectDb == FALSE
Sqlite3Imported == FALSE

MainKey == "memento/webviewView.augment-chat"
PanelKey == "workbench.view.extension.augment-chat"

\* a store the reader is pointed at: access as for a container, the keys
\* that hold "augment", and the value stored under them
KvStore(access, keys, value) == [access |-> access, keys |-> keys, value |-> value]

\* what a reader call gives back: a value (a list; None and {} are the
\* empty list), or the exception that leaves the call
KvReturned(value) == [raised |-> FALSE, exc |-> "none", value |-> value]
KvRaised(exc) == [raised |-> TRUE, exc |-> exc, value |-> <<>>]

KeyData(key, value, parsed_data) ==
    [key |-> key, raw_value |-> value, parsed_data |-> parsed_data]

\* `with self._connect_db() as conn:` and cursor.execute: the exception
\* raised, "none" when the query answers
QueryException(kv) ==
    IF ~HasConnectDb THEN "AttributeError"
    ELSE IF kv.access # "ok" THEN "sqlite3.Error"
    ELSE "none"

\* `except sqlite3.Error as e:` the name sqlite3 is looked up when an
\* exception reaches the clause
Handled(exc, default) ==
    IF ~Sqlite3Imported THEN KvRaised("NameError")
    ELSE IF exc = "sqlite3.Error" THEN KvReturned(default)
    ELSE KvRaised(exc)

\* _find_augment_keys
FindAugmentKeys(kv) ==
    IF QueryException(kv) = "none" THEN KvReturned(kv.keys)
    ELSE Handled(QueryException(kv), <<>>)

\* fetchone() gives a row for the key
HasRow(kv, key) == \E i \in 1..Len(kv.keys) : kv.keys[i] = key

\* the exception raised in the body of _extract_key_data
KeyDataException(kv, key) ==
    IF QueryException(kv) # "none" THEN QueryException(kv)
    ELSE IF ~HasRow(kv, key) THEN "none"
    ELSE IF ParseJsonValue(kv.value).raised THEN "ValueError"
    ELSE IF kv.value.k = "int" /\ kv.value.n # 0 THEN "TypeError"
    ELSE "none"

\* _extract_key_data
ExtractKeyData(kv, key) ==
    IF KeyDataException(kv, key) # "none" THEN Handled(KeyDataException(kv, key), <<>>)
    ELSE IF ~HasRow(kv, key) THEN KvReturned(<<>>)
    ELSE KvReturned(<<KeyData(key, kv.value, ParseJsonValue(kv.value))>>)

\* the loop of extract_augment_data over augment_keys
RECURSIVE ExtractedData(_, _, _)
ExtractedData(kv, augment_keys, extracted_data) ==
    IF augment_keys = <<>> THEN KvReturned(extracted_data)
    ELSE IF ExtractKeyData(kv, Head(augment_keys)).raised
    THEN ExtractKeyData(kv, Head(augment_keys))
    ELSE ExtractedData(kv, Tail(augment_keys),
                       extracted_data \o ExtractKeyData(kv, Head(augment_keys)).value)

\* extract_augment_data
ExtractAugmentData(kv) ==
    IF FindAugmentKeys(kv).raised THEN FindAugmentKeys(kv)
    ELSE ExtractedData(kv, FindAugmentKeys(kv).value, <<>>)

\* the stores the reader is pointed at
KvStores ==
    {KvStore(a, ks, v) : a \in {"ok", "noopen", "notable"},
                         ks \in {<<>>, <<MainKey>>, <<PanelKey, MainKey>>},
                         v \in RawValues}

\* the arguments of the setters: data-source keys, one of them unsupported,
\* and the maps of at most two of them
SetterKeys == {"cursor", "augment", "unknown"}
SetterPaths == {None, "p"}
SetterMaps ==
    UNION {[ks -> SetterPaths] : ks \in {k \in SUBSET SetterKeys : Cardinality(k) <= 2}}

\* the stores of the containers of a run
RunStores ==
    {Store(TRUE, "value", "obj", "dict", "dict",
           <<Item(ConvId(1), DictRecord("valid", "valid", "list", <<Entry("dict", FullItem)>>))>>),
     Store(TRUE, "value", "obj", "str", "dict",
           <<Item(ConvId(1), ConvData("other", "valid", "valid", "list", <<>>,
                                      FALSE, FALSE, FALSE, FALSE)),
             Item(ConvId(2), DictRecord("valid", "valid", "list",
                                        <<Entry("dict", PlainItem("valid", A, B))>>))>>),
     Store(TRUE, "absent", "bad", "absent", "absent", <<>>),
     Store(TRUE, "value", "bad", "absent", "absent", <<>>)}

\* the containers of a run
RunContainers ==
    {Container("ok", FALSE, s) : s \in RunStores}
    \cup {Container("ok", TRUE, s) : s \in {t \in RunStores : t.row = "absent"}}
    \cup {Container(a, FALSE, s) : a \in {"noopen", "notable", "lost"},
                                   s \in {t \in RunStores : t.top = "obj" /\ t.ws = "dict"}}
    \cup {Container("lost", FALSE, s) : s \in {t \in RunStores : t.ws = "str"}}

(***************************************************************************)
(* Actions                                                                 *)
(***************************************************************************)
\* a run of the merge step: the two channels of one turn are given, the
\* merged content is still to be computed
InitMerge ==
    /\ pc = "ready"
    /\ op = "merge"
    /\ arg \in [response_text : Texts, structured_content : Texts]
    /\ ret = <<>>
    /\ locals = <<>>
    /\ conns = {}

\* one call of _merge_message_content
CallMerge ==
    /\ pc = "ready"
    /\ op = "merge"
    /\ pc' = "done"
    /\ ret' = MergeMessageContent(arg.response_text, arg.structured_content)
    /\ UNCHANGED <<op, arg, locals, conns>>

NextMerge == CallMerge

SpecMerge == InitMerge /\ [][NextMerge]_vars

\* a turn-level call: one chat item is given to one of the operations of
\* the parser
InitTurn ==
    /\ pc = "ready"
    /\ \/ op = "structured" /\ arg \in StructuredItems
       \/ op = "tool_uses" /\ arg \in ToolUseItems
    /\ ret = <<>>
    /\ locals = <<>>
    /\ conns = {}

\* one call of _extract_structured_content
CallExtractStructured ==
    /\ pc = "ready"
    /\ op = "structured"
    /\ pc' = "done"
    /\ ret' = ExtractStructuredContent(arg)
    /\ UNCHANGED <<op, arg, locals, conns>>

\* one call of _extract_tool_uses
CallExtractToolUses ==
    /\ pc = "ready"
    /\ op = "tool_uses"
    /\ pc' = "done"
    /\ ret' = ExtractToolUses(arg)
    /\ UNCHANGED <<op, arg, locals, conns>>

NextTurn == CallExtractStructured \/ CallExtractToolUses

SpecTurn == InitTurn /\ [][NextTurn]_vars

\* an assembler-level call: a chat item, a conversation record or a store is
\* given to the assembler of a host
InitAssemble ==
    /\ pc = "ready"
    /\ \/ op = "parse_message" /\ arg \in [entry : MessageEntries]
       \/ op = "assemble"
          /\ arg \in [host : Hosts, conv_data : ConvRecords]
       \/ op = "extract" /\ arg \in [host : Hosts, store : Stores]
       \/ op = "convert" /\ arg \in [host : Hosts \ {"parser"}, store : Stores]
    /\ ret = <<>>
    /\ locals = <<>>
    /\ conns = {}

\* one call of ConversationParser._parse_message
CallParseMessage ==
    /\ pc = "ready"
    /\ op = "parse_message"
    /\ pc' = "done"
    /\ ret' = ParseMessage(arg.entry)
    /\ UNCHANGED <<op, arg, locals, conns>>

\* one call of _parse_conversation or _parse_single_conversation
CallAssemble ==
    /\ pc = "ready"
    /\ op = "assemble"
    /\ pc' = "done"
    /\ ret' = Assemble(arg.host, ConvId(1), arg.conv_data, W1)
    /\ UNCHANGED <<op, arg, locals, conns>>

\* one extraction of the conversations of a container
CallExtract ==
    /\ pc = "ready"
    /\ op = "extract"
    /\ pc' = "done"
    /\ ret' = Extract(arg.host, arg.store, W1)
    /\ UNCHANGED <<op, arg, locals, conns>>

\* the conversations of a container, extracted and converted for the
\* presentation layer
CallConvert ==
    /\ pc = "ready"
    /\ op = "convert"
    /\ pc' = "done"
    /\ ret' = ConvertToCursorFormat(arg.host, Extract(arg.host, arg.store, W1).conversations)
    /\ UNCHANGED <<op, arg, locals, conns>>

NextAssemble == CallParseMessage \/ CallAssemble \/ CallExtract \/ CallConvert

SpecAssemble == InitAssemble /\ [][NextAssemble]_vars

\* a run of extract_augment_conversations over the containers of a host
InitRun ==
    /\ pc = "scan"
    /\ op = "run"
    /\ arg \in [host : {"vscode", "cursor"},
                containers : SeqsUpTo(RunContainers, MaxContainers)]
    /\ ret = <<>>
    /\ locals = Locals(1, <<>>, <<>>)
    /\ conns = {}

\* find_all_augment_databases: one call of _has_augment_data
CallHasAugmentData ==
    /\ pc = "scan"
    /\ locals.i <= Len(arg.containers)
    /\ locals' = Locals(locals.i + 1,
                        DatabasesAfter(locals.augment_databases, locals.i,
                                       HasAugmentData(arg.host, arg.containers[locals.i])),
                        locals.all_conversations)
    /\ \E open \in LeftOpen(QueryOutcome(arg.containers[locals.i], "has"), "has", locals.i) :
          conns' = conns \cup open
    /\ arg' = [arg EXCEPT !.containers[locals.i] = ContainerAfter(@, "has")]
    /\ UNCHANGED <<pc, op, ret>>

\* `if not augment_databases: return []`, else the loop over them begins
FoundDatabases ==
    /\ pc = "scan"
    /\ locals.i > Len(arg.containers)
    /\ IF locals.augment_databases = <<>>
       THEN pc' = "done" /\ ret' = Returned(<<>>) /\ UNCHANGED locals
       ELSE /\ pc' = "extract"
            /\ locals' = Locals(1, locals.augment_databases, <<>>)
            /\ UNCHANGED ret
    /\ UNCHANGED <<op, arg, conns>>

\* one turn of the loop: _extract_conversations_from_database on one
\* container found, and all_conversations.extend
CallExtractFromDatabase ==
    /\ pc = "extract"
    /\ locals.i <= Len(locals.augment_databases)
    /\ locals' = Locals(locals.i + 1, locals.augment_databases,
                        AllConversationsAfter(
                            locals.all_conversations,
                            ExtractConversationsFromDatabase(
                                arg.host,
                                arg.containers[locals.augment_databases[locals.i]],
                                WorkspaceId(locals.augment_databases[locals.i]))))
    /\ \E open \in LeftOpen(QueryOutcome(arg.containers[locals.augment_databases[locals.i]],
                                         "extract"),
                            "extract", locals.augment_databases[locals.i]) :
          conns' = conns \cup open
    /\ arg' = [arg EXCEPT !.containers[locals.augment_databases[locals.i]] =
                               ContainerAfter(@, "extract")]
    /\ UNCHANGED <<pc, op, ret>>

\* `return all_conversations`
ReturnConversations ==
    /\ pc = "extract"
    /\ locals.i > Len(locals.augment_databases)
    /\ pc' = "done"
    /\ ret' = Returned(locals.all_conversations)
    /\ UNCHANGED <<op, arg, locals, conns>>

NextRun ==
    CallHasAugmentData \/ FoundDatabases \/ CallExtractFromDatabase \/ ReturnConversations

SpecRun == InitRun /\ [][NextRun]_vars

\* a call of the key-value reader on one store
InitReader ==
    /\ pc = "ready"
    /\ op \in {"find_augment_keys", "extract_key_data", "extract_augment_data"}
    /\ arg \in [kv : KvStores]
    /\ ret = <<>>
    /\ locals = <<>>
    /\ conns = {}

\* one call of _find_augment_keys
CallFindAugmentKeys ==
    /\ pc = "ready"
    /\ op = "find_augment_keys"
    /\ pc' = "done"
    /\ ret' = FindAugmentKeys(arg.kv)
    /\ UNCHANGED <<op, arg, locals, conns>>

\* one call of _extract_key_data, as get_main_chat_data makes it
CallExtractKeyData ==
    /\ pc = "ready"
    /\ op = "extract_key_data"
    /\ pc' = "done"
    /\ ret' = ExtractKeyData(arg.kv, MainKey)
    /\ UNCHANGED <<op, arg, locals, conns>>

\* one call of extract_augment_data
CallExtractAugmentData ==
    /\ pc = "ready"
    /\ op = "extract_augment_data"
    /\ pc' = "done"
    /\ ret' = ExtractAugmentData(arg.kv)
    /\ UNCHANGED <<op, arg, locals, conns>>

NextReader == CallFindAugmentKeys \/ CallExtractKeyData \/ CallExtractAugmentData

SpecReader == InitReader /\ [][NextReader]_vars

\* a ConfigManager after construction, with the default configuration saved
InitConfig ==
    /\ pc = "ready"
    /\ op = "init"
    /\ arg = <<>>
    /\ ret = TRUE
    /\ locals = Config(DefaultPaths, DefaultPaths)
    /\ conns = {}

\* one call of set_path; writable: whether the settings file can be written
CallSetPath ==
    \E data_source \in DataSources \cup SetterKeys, path \in SetterPaths, writable \in BOOLEAN :
        /\ op' = "set_path"
        /\ arg' = [data_source |-> data_source, path |-> path, writable |-> writable]
        /\ ret' = SetPath(locals, data_source, path, writable).ok
        /\ locals' = SetPath(locals, data_source, path, writable).config
        /\ UNCHANGED <<pc, conns>>

\* one call of set_all_paths
CallSetAllPaths ==
    \E paths \in SetterMaps, writable \in BOOLEAN :
        /\ op' = "set_all_paths"
        /\ arg' = [paths |-> paths, writable |-> writable]
        /\ ret' = SetAllPaths(locals, paths, writable).ok
        /\ locals' = SetAllPaths(locals, paths, writable).config
        /\ UNCHANGED <<pc, conns>>

NextConfig == CallSetPath \/ CallSetAllPaths

SpecConfig == InitConfig /\ [][NextConfig]_vars

\* a value of the store is given to the decoder
InitDecode ==
    /\ pc = "ready"
    /\ op = "decode"
    /\ arg \in [value : RawValues]
    /\ ret = <<>>
    /\ locals = <<>>
    /\ conns = {}

\* one call of AugmentDataExtractor._parse_json_value
CallParseJsonValue ==
    /\ pc = "ready"
    /\ op = "decode"
    /\ pc' = "done"
    /\ ret' = ParseJsonValue(arg.value)
    /\ UNCHANGED <<op, arg, locals, conns>>

NextDecode == CallParseJsonValue

SpecDecode == InitDecode /\ [][NextDecode]_vars

(***************************************************************************)
(* C1  A turn whose trimmed request text is non-empty and whose merged     *)
(* assistant content is non-empty is assembled, on every host path, into   *)
(* exactly two messages: a user message with the trimmed request text,     *)
(* then an assistant message with the merged content.                      *)
(***************************************************************************)
\* a conversation record of one turn that every assembler reads: an object
\* with a list of one chat item that is an object, no timestamp ill-typed
IsOneTurnRecord(conv_data) ==
    /\ conv_data.k = "dict"
    /\ conv_data.created # "nontext" /\ conv_data.last # "nontext"
    /\ conv_data.hist_k = "list"
    /\ Len(conv_data.hist) = 1
    /\ conv_data.hist[1].k = "dict"
    /\ conv_data.hist[1].item.timestamp # "nontext"

MergedContent(chat_item) ==
    MergeMessageContent(chat_item.response_text, ExtractStructuredContent(chat_item))

RolesAndContents(messages) ==
    [i \in 1..Len(messages) |-> <<messages[i].role, messages[i].content>>]

TurnPairOn(hosts) ==
    (pc = "done" /\ op = "assemble" /\ arg.host \in hosts
     /\ IsOneTurnRecord(arg.conv_data)) =>
        LET chat_item == arg.conv_data.hist[1].item
        IN  (Strip(chat_item.request_message) # <<>>
             /\ Strip(MergedContent(chat_item)) # <<>>) =>
                /\ Len(ret) = 1
                /\ RolesAndContents(ret[1].messages) =
                       << <<"user", Strip(chat_item.request_message)>>,
                          <<"assistant", MergedContent(chat_item)>> >>

TurnPair == TurnPairOn(Hosts)

\* the same statement for the one path that has its own loop over the turns
TurnPairCursor == TurnPairOn({"cursor"})

(***************************************************************************)
(* C2  Dedup law.  With P and S the plain text and the structured content  *)
(* as trimmed by the merge, both non-empty: if P occurs in S the merged    *)
(* content is S; if S occurs in P and P does not occur in S it is P.       *)
(***************************************************************************)
DedupLaw ==
    (pc = "done" /\ op = "merge") =>
        LET P == Strip(arg.response_text)
            S == Strip(arg.structured_content)
        IN  (P # <<>> /\ S # <<>>) =>
                /\ Contains(S, P) => ret = S
                /\ (Contains(P, S) /\ ~Contains(S, P)) => ret = P

\* the plain text is a proper part of the structured content and is dropped
DedupWitness ==
    /\ pc = "done"
    /\ op = "merge"
    /\ Strip(arg.response_text) = <<"a">>
    /\ Strip(arg.structured_content) = <<"a", " ", "b">>
    /\ arg.response_text # Strip(arg.response_text)
    /\ ret = <<"a", " ", "b">>

(***************************************************************************)
(* C3  Merge precedence outside the containment cases: one side empty      *)
(* after trimming gives the other side, both empty give the empty text,    *)
(* and two non-empty texts neither of which contains the other give plain  *)
(* text, a blank line, structured content.                                 *)
(***************************************************************************)
MergePrecedence ==
    (pc = "done" /\ op = "merge") =>
        LET P == Strip(arg.response_text)
            S == Strip(arg.structured_content)
        IN  /\ (P = <<>> /\ S = <<>>) => ret = <<>>
            /\ (P = <<>> /\ S # <<>>) => ret = S
            /\ (P # <<>> /\ S = <<>>) => ret = P
            /\ (P # <<>> /\ S # <<>> /\ ~Contains(S, P) /\ ~Contains(P, S)) =>
                   ret = P \o <<"\n", "\n">> \o S

\* two texts that overlap without containment are concatenated
MergePrecedenceWitness ==
    /\ pc = "done"
    /\ op = "merge"
    /\ arg.response_text = <<"a", "b">>
    /\ arg.structured_content = <<"b", "a">>
    /\ ret = <<"a", "b", "\n", "\n", "b", "a">>

(***************************************************************************)
(* C4  Ordering law.                                                       *)
(***************************************************************************)
\* the orderings of a list
OrderingsOf(nodes) ==
    {[i \in 1..Len(nodes) |-> nodes[f[i]]] : f \in Permutations(1..Len(nodes))}

Ascending(nodes) ==
    \A i \in 1..Len(nodes), j \in 1..Len(nodes) :
        i < j => SortKey(nodes[i]) <= SortKey(nodes[j])

DistinctIds(nodes) ==
    \A i \in 1..Len(nodes), j \in 1..Len(nodes) :
        i # j => SortKey(nodes[i]) # SortKey(nodes[j])

\* every ordering of the fragments of the chat item gives the string the
\* call returned, which is the string of the fragments in ascending order
SameForAllOrderings ==
    \A p \in OrderingsOf(arg.structured_output_nodes) :
        /\ ExtractStructuredContent([arg EXCEPT !.structured_output_nodes = p]) = ret
        /\ Ascending(p) => ContentOfNodes(p, arg.structured_request_nodes) = ret

\* C4 as claimed: for any two orderings of the same fragments the extraction
\* returns the same string, the one of the fragments in ascending
\* position-id order; the stored order has no influence.
OrderingLawAnyIds ==
    (pc = "done" /\ op = "structured") => SameForAllOrderings

\* C4 as amended: when the position ids of the fragments are pairwise
\* distinct (a missing id counts as 0), any two orderings of the fragments
\* give the same string, the one of the fragments in ascending position-id
\* order.
OrderingLawDistinctIds ==
    (pc = "done" /\ op = "structured" /\ DistinctIds(arg.structured_output_nodes))
        => SameForAllOrderings

\* two fragments stored in descending order of id come out ascending
OrderingWitness ==
    /\ pc = "done"
    /\ op = "structured"
    /\ arg.structured_output_nodes = <<TextNode(2, A), TextNode(1, B)>>
    /\ arg.structured_request_nodes = <<>>
    /\ ret = <<"b", "\n", "\n", "a">>

(***************************************************************************)
(* C5  Every conversation returned by the extraction of a host (VSCode,    *)
(* Cursor, IDEA, ConversationParser.parse_conversations) has at least one  *)
(* message.                                                                *)
(***************************************************************************)
NoEmptyConversationOn(hosts) ==
    (pc = "done" /\ op = "extract" /\ arg.host \in hosts) =>
        \A i \in 1..Len(ret.conversations) : ret.conversations[i].messages # <<>>

NoEmptyConversation == NoEmptyConversationOn(Hosts)

\* the same statement without the IDEA path
NoEmptyConversationElsewhere == NoEmptyConversationOn(Hosts \ {"idea"})

(***************************************************************************)
(* C6  Record isolation.  From a conversations map of N well-formed        *)
(* records, each yielding at least one message, and one malformed record   *)
(* (wrong value type, chatHistory missing or ill-typed) at any position,   *)
(* the extraction returns exactly the N well-formed conversations and      *)
(* raises nothing.                                                         *)
(***************************************************************************)
IsWellFormedTurn(entry) == entry.k = "dict" /\ entry.item.timestamp # "nontext"

YieldsMessage(entry) ==
    /\ IsWellFormedTurn(entry)
    /\ \/ Strip(entry.item.request_message) # <<>>
       \/ Strip(entry.item.response_text) # <<>>

IsWellFormedRecord(conv_data) ==
    /\ conv_data.k = "dict"
    /\ conv_data.created # "nontext" /\ conv_data.last # "nontext"
    /\ conv_data.hist_k = "list"
    /\ \A i \in 1..Len(conv_data.hist) : IsWellFormedTurn(conv_data.hist[i])
    /\ \E i \in 1..Len(conv_data.hist) : YieldsMessage(conv_data.hist[i])

\* the value is no object, or it is no JSON
HasWrongType(conv_data) == conv_data.k \in {"strbad", "other"}

\* chatHistory is a number or null
HasIllTypedHistory(conv_data) == conv_data.k = "dict" /\ conv_data.hist_k = "nonlist"

HasNoHistory(conv_data) == conv_data.k = "dict" /\ conv_data.hist_k = "missing"

\* the container is one the extractor of the host finds a conversations map in
HoldsMap(host, store) ==
    /\ store.readable /\ store.row = "value" /\ store.top = "obj"
    /\ store.convs_k = "dict"
    /\ host = "vscode" => store.ws = "str"
    /\ host \in {"cursor", "parser"} => store.ws \in {"str", "dict"}

\* one record of the map is malformed and the others are well-formed
OneMalformed(convs, IsMalformed(_)) ==
    \E i \in 1..Len(convs) :
        /\ IsMalformed(convs[i].data)
        /\ \A j \in 1..Len(convs) : j # i => IsWellFormedRecord(convs[j].data)

IsWellFormedItem(item) == IsWellFormedRecord(item.data)

Ids(items) == [i \in 1..Len(items) |-> items[i].id]

IsolationOn(hosts, IsMalformed(_)) ==
    (pc = "done" /\ op = "extract" /\ arg.host \in hosts
     /\ HoldsMap(arg.host, arg.store)
     /\ OneMalformed(arg.store.convs, IsMalformed)) =>
        /\ ~ret.raised
        /\ Ids(ret.conversations) = Ids(SelectSeq(arg.store.convs, IsWellFormedItem))

IsMalformedRecord(conv_data) ==
    HasWrongType(conv_data) \/ HasIllTypedHistory(conv_data) \/ HasNoHistory(conv_data)

RecordIsolation == IsolationOn(Hosts, IsMalformedRecord)

\* the same statement without the IDEA path
RecordIsolationElsewhere == IsolationOn(Hosts \ {"idea"}, IsMalformedRecord)

IsUnreadableRecord(conv_data) == HasWrongType(conv_data) \/ HasIllTypedHistory(conv_data)

\* the same statement for the records no assembler reads, on every path
RecordIsolationUnreadable == IsolationOn(Hosts, IsUnreadableRecord)

(***************************************************************************)
(* C7  Non-fatal decode.  _parse_json_value raises for no text and no      *)
(* binary input; an outer string that is no JSON comes back unchanged; a   *)
(* webviewState string that is no JSON is left as it is; bytes that are no *)
(* UTF-8 give None.                                                        *)
(***************************************************************************)
IsDecodeOfData == pc = "done" /\ op = "decode" /\ arg.value.k \in {"str", "bytes", "badbytes"}

DecodeNeverRaises == IsDecodeOfData => ~ret.raised

DecodeKeepsOuterString ==
    (IsDecodeOfData /\ arg.value.k = "str" /\ arg.value.doc.k = "text") =>
        ret = SameString(arg.value.doc)

DecodeKeepsInnerString ==
    (IsDecodeOfData /\ arg.value.k \in {"str", "bytes"}
     /\ arg.value.doc.k = "object" /\ arg.value.doc.ws_k = "str") =>
        ret = Decoded(arg.value.doc)

DecodeOfBadBytes == (IsDecodeOfData /\ arg.value.k = "badbytes") => ret = NoData

NonFatalDecode ==
    /\ DecodeNeverRaises
    /\ DecodeKeepsOuterString
    /\ DecodeKeepsInnerString
    /\ DecodeOfBadBytes

(***************************************************************************)
(* C8  Tool-result correlation: the ToolUse of the invocation with id I in *)
(* a turn with request id R takes result text and error flag from the      *)
(* side-table entry keyed R;I when there is one, and otherwise is produced *)
(* with no result and error flag false.                                    *)
(***************************************************************************)
IsInvocation(node) == node.type = 5 /\ node.has_tool_use

ToolCorrelation ==
    (pc = "done" /\ op = "tool_uses" /\ arg.has_request_id) =>
        LET invocations == SelectSeq(arg.structured_output_nodes, IsInvocation)
            table == arg.toolUseStates
        IN  /\ Len(ret) = Len(invocations)
            /\ \A i \in 1..Len(ret) :
                 LET I == invocations[i].tool_use.tool_use_id
                     key == arg.request_id \o <<";">> \o I
                 IN  /\ ret[i].tool_use_id = I
                     /\ ret[i].tool_name = invocations[i].tool_use.tool_name
                     /\ IF key \in DOMAIN table
                        THEN /\ ~ret[i].no_result
                             /\ table[key].has_result =>
                                    /\ ret[i].result = table[key].text
                                    /\ ret[i].is_error = table[key].isError
                             /\ ~table[key].has_result =>
                                    /\ ret[i].result = <<>>
                                    /\ ~ret[i].is_error
                        ELSE /\ ret[i].no_result
                             /\ ret[i].result = <<>>
                             /\ ~ret[i].is_error

\* request id r, invocations x and y, one entry r;x with text ok: the first
\* ToolUse has the result, the second has none
ToolCorrelationWitness ==
    /\ pc = "done"
    /\ op = "tool_uses"
    /\ arg.has_request_id /\ arg.request_id = <<"r">>
    /\ DOMAIN arg.toolUseStates = {<<"r", ";", "x">>}
    /\ Len(ret) = 2
    /\ ret[1].tool_use_id = IdX /\ ~ret[1].no_result
    /\ ret[1].result = <<"o", "k">> /\ ~ret[1].is_error
    /\ ret[2].tool_use_id = IdY /\ ret[2].no_result

(***************************************************************************)
(* C9  Every message emitted by an assembler has role user or assistant    *)
(* and a content that is non-empty after trimming; a side of a turn whose  *)
(* final content is empty or blank gives no message.                       *)
(***************************************************************************)
RECURSIVE MessagesOf(_)
MessagesOf(conversations) ==
    IF conversations = <<>> THEN <<>>
    ELSE Head(conversations).messages \o MessagesOf(Tail(conversations))

\* the messages in what the call returned
Emitted ==
    IF op = "parse_message" THEN ret
    ELSE IF op = "assemble" THEN MessagesOf(ret)
    ELSE MessagesOf(ret.conversations)

HasRole(messages, role) == \E i \in 1..Len(messages) : messages[i].role = role

EmittedMessages ==
    (pc = "done" /\ op \in {"parse_message", "assemble", "extract"}) =>
        /\ \A i \in 1..Len(Emitted) :
              /\ Emitted[i].role \in {"user", "assistant"}
              /\ Strip(Emitted[i].content) # <<>>
        /\ (op = "assemble" /\ IsOneTurnRecord(arg.conv_data)) =>
              LET chat_item == arg.conv_data.hist[1].item
              IN  /\ Strip(chat_item.request_message) = <<>> => ~HasRole(Emitted, "user")
                  /\ Strip(MergedContent(chat_item)) = <<>> => ~HasRole(Emitted, "assistant")

\* a turn with a blank request and a padded response gives the assistant
\* message alone
EmittedMessagesWitness ==
    /\ pc = "done"
    /\ op = "assemble"
    /\ arg.host = "cursor"
    /\ IsOneTurnRecord(arg.conv_data)
    /\ arg.conv_data.hist[1].item.request_message = <<" ">>
    /\ arg.conv_data.hist[1].item.response_text = <<"b", " ">>
    /\ Len(ret) = 1
    /\ RolesAndContents(ret[1].messages) = << <<"assistant", <<"b">>>> >>

(***************************************************************************)
(* C10  A tool-invocation fragment (type 5) adds nothing to the assistant  *)
(* text unless its tool is render-mermaid with a decodable input that has  *)
(* a non-empty diagram definition; then it adds one fenced mermaid block   *)
(* of the definition, preceded by the bold title and a blank line when the *)
(* title is non-empty.                                                     *)
(***************************************************************************)
IsDiagramInvocation(node) ==
    /\ node.has_tool_use
    /\ node.tool_use.tool_name = "render-mermaid"
    /\ node.tool_use.input_json.k = "obj"
    /\ node.tool_use.input_json.d # <<>>

FencedBlock(d, ti) ==
    (IF ti # <<>> THEN <<"*", "*">> \o ti \o <<"*", "*", "\n", "\n">> ELSE <<>>)
    \o <<BQ, BQ, BQ, "m", "e", "r", "m", "a", "i", "d", "\n">> \o d
    \o <<"\n", BQ, BQ, BQ>>

\* what the claim lets a fragment add: tool invocations by the claim's rule,
\* the other fragments what they add anyway
RECURSIVE ClaimedParts(_)
ClaimedParts(nodes) ==
    IF nodes = <<>> THEN <<>>
    ELSE LET n == Head(nodes)
         IN  (IF n.type = 5
              THEN IF IsDiagramInvocation(n)
                   THEN <<FencedBlock(n.tool_use.input_json.d, n.tool_use.input_json.ti)>>
                   ELSE <<>>
              ELSE OutputNodeParts(n).parts)
             \o ClaimedParts(Tail(nodes))

ToolFragmentText ==
    (pc = "done" /\ op = "structured" /\ Ascending(arg.structured_output_nodes)) =>
        IF OutputParts(arg.structured_output_nodes).raised
        THEN ret = <<>>
        ELSE ret = Join(<<"\n", "\n">>,
                        ClaimedParts(arg.structured_output_nodes)
                        \o RequestParts(arg.structured_request_nodes).parts)

\* a render-mermaid invocation after a text gives a titled block after it
ToolFragmentWitness ==
    /\ pc = "done"
    /\ op = "structured"
    /\ arg.structured_output_nodes =
          <<TextNode(1, A),
            ToolNode(2, "render-mermaid", IdX, InputJson("obj", A, B))>>
    /\ arg.structured_request_nodes = <<>>
    /\ ret = <<"a", "\n", "\n", "*", "*", "b", "*", "*", "\n", "\n",
               BQ, BQ, BQ, "m", "e", "r", "m", "a", "i", "d", "\n", "a", "\n", BQ, BQ, BQ>>

(***************************************************************************)
(* C11  A text fragment (type 0) adds its text verbatim to the assistant   *)
(* content, unless the text is a JSON document whose type tag marks a      *)
(* diagram: then it adds the rendered diagram block and not the JSON text. *)
(* A fragment of another non-tool type goes through the same check and     *)
(* otherwise adds its content as plain text.                               *)
(***************************************************************************)
HasDiagramTag(c) == c.k \in {"json", "dict"} /\ c.tag = MermaidTag

\* what a fragment that is no tool invocation adds.  reading = "stated":
\* the text as it is stored and a block for every tagged document;
\* "trimmed": the text trimmed, nothing for a blank text; "rendered": as
\* trimmed, and a block only for a tagged document whose diagram definition
\* is not empty, the text of the document otherwise
ClaimedTextParts(c, reading) ==
    IF c.k = "absent" THEN <<>>
    ELSE IF HasDiagramTag(c) /\ (reading # "rendered" \/ c.d # <<>>)
         THEN <<FencedBlock(c.d, c.ti)>>
    ELSE IF reading = "stated"
         THEN (IF ContentText(c) # <<>> THEN <<ContentText(c)>> ELSE <<>>)
    ELSE IF Strip(ContentText(c)) # <<>> THEN <<Strip(ContentText(c))>> ELSE <<>>

RECURSIVE ClaimedFragmentParts(_, _)
ClaimedFragmentParts(nodes, reading) ==
    IF nodes = <<>> THEN <<>>
    ELSE (IF Head(nodes).type = 5 THEN OutputNodeParts(Head(nodes)).parts
          ELSE ClaimedTextParts(Head(nodes).content, reading))
         \o ClaimedFragmentParts(Tail(nodes), reading)

\* the statement for the chat items none of whose fragments raises
TextFragmentLaw(reading) ==
    (pc = "done" /\ op = "structured" /\ Ascending(arg.structured_output_nodes)
     /\ ~OutputParts(arg.structured_output_nodes).raised) =>
        ret = Join(<<"\n", "\n">>,
                   ClaimedFragmentParts(arg.structured_output_nodes, reading)
                   \o RequestParts(arg.structured_request_nodes).parts)

TextFragmentStated == TextFragmentLaw("stated")

\* the same statement with the text trimmed: a tagged document without a
\* diagram definition still gives its JSON text
TextFragmentTrimmed == TextFragmentLaw("trimmed")

\* the same statement with the text trimmed and a block only for a
\* non-empty diagram definition
TextFragmentRendered == TextFragmentLaw("rendered")

(***************************************************************************)
(* C12  A request-side fragment of tool-result type whose payload decodes  *)
(* to a diagram description is rendered as a diagram block that appears in *)
(* the assistant content of the turn after all output-fragment content,    *)
(* also when the response text and the output fragments are both empty; a  *)
(* tool-result payload that is no diagram adds nothing.                    *)
(***************************************************************************)
IsDiagramResult(node) ==
    /\ node.type = 1
    /\ node.content.k = "json"
    /\ node.content.tag = MermaidTag
    /\ node.content.d # <<>>

RECURSIVE ClaimedResultParts(_)
ClaimedResultParts(nodes) ==
    IF nodes = <<>> THEN <<>>
    ELSE (IF IsDiagramResult(Head(nodes))
          THEN <<FencedBlock(Head(nodes).content.d, Head(nodes).content.ti)>>
          ELSE <<>>)
         \o ClaimedResultParts(Tail(nodes))

\* the structured content is the output-fragment content followed by the
\* blocks of the diagram results
ToolResultText ==
    (pc = "done" /\ op = "structured"
     /\ ~OutputParts(SortedNodes(arg.structured_output_nodes)).raised) =>
        ret = Join(<<"\n", "\n">>,
                   OutputParts(SortedNodes(arg.structured_output_nodes)).parts
                   \o ClaimedResultParts(arg.structured_request_nodes))

HasAssistantWith(messages, text) ==
    \E i \in 1..Len(messages) :
        messages[i].role = "assistant" /\ Contains(messages[i].content, text)

\* the block of a diagram result is in the assistant content of the turn
DiagramResultShownOn(hosts) ==
    (pc = "done" /\ op = "assemble" /\ arg.host \in hosts
     /\ IsOneTurnRecord(arg.conv_data)) =>
        LET chat_item == arg.conv_data.hist[1].item
        IN  \A i \in 1..Len(chat_item.structured_request_nodes) :
                IsDiagramResult(chat_item.structured_request_nodes[i]) =>
                    /\ Len(ret) = 1
                    /\ HasAssistantWith(
                           ret[1].messages,
                           FencedBlock(chat_item.structured_request_nodes[i].content.d,
                                       chat_item.structured_request_nodes[i].content.ti))

DiagramResultShown == DiagramResultShownOn(Hosts)

\* the same statement for the path that has its own loop over the turns
DiagramResultShownCursor == DiagramResultShownOn({"cursor"})

(***************************************************************************)
(* C13  A header or turn timestamp that is absent, empty, no text or not   *)
(* parsable gives the current time, and the conversation or message that   *)
(* carries it is still produced.                                           *)
(***************************************************************************)
\* a record of one turn that has a request text, whatever its timestamps
HasOneRequestTurn(conv_data) ==
    /\ conv_data.k = "dict"
    /\ conv_data.hist_k = "list"
    /\ Len(conv_data.hist) = 1
    /\ conv_data.hist[1].k = "dict"
    /\ Strip(conv_data.hist[1].item.request_message) # <<>>

TimestampDefaultFor(hosts, kinds) ==
    (pc = "done" /\ op = "assemble" /\ arg.host \in hosts
     /\ HasOneRequestTurn(arg.conv_data)
     /\ {arg.conv_data.created, arg.conv_data.last,
         arg.conv_data.hist[1].item.timestamp} \subseteq kinds) =>
        /\ Len(ret) = 1
        /\ arg.conv_data.created # "valid" => ret[1].created_at = "now"
        /\ arg.conv_data.last # "valid" => ret[1].last_interacted_at = "now"
        /\ ret[1].messages # <<>>
        /\ arg.conv_data.hist[1].item.timestamp # "valid" =>
               \A i \in 1..Len(ret[1].messages) : ret[1].messages[i].timestamp = "now"

TimestampDefault == TimestampDefaultFor(Hosts, TimestampKinds)

\* the same statement for the lenient _parse_datetime of the Cursor path
TimestampDefaultCursor == TimestampDefaultFor({"cursor"}, TimestampKinds)

\* the same statement for timestamps that are text or absent, on every path
TimestampDefaultText == TimestampDefaultFor(Hosts, TimestampKinds \ {"nontext"})


(***************************************************************************)
(* C14: every connection opened for a container query (_has_augment_data,  *)
(* _extract_conversations_from_database, VSCode and Cursor) is closed by   *)
(* the time the call returns, on the success path and on every error path; *)
(* after any sequence of container queries no connection remains open.     *)
(***************************************************************************)
\* C14 as stated: between the calls of a run no connection is open.  The
\* code closes the connection after fetchone only, so a query that raises
\* (a store without ItemTable) returns with the connection open.
NoConnectionLeftOpen == conns = {}

\* what the code does keep: a connection left open is one whose query raised
OpenOnlyAfterFailingQuery ==
    \A c \in conns : QueryOutcome(arg.containers[c.container], c.fn) = "raises"

(***************************************************************************)
(* C16: container isolation.  In extract_augment_conversations a container *)
(* that fails (unreadable store, missing table, undecodable top-level      *)
(* value) contributes zero conversations and the run continues; the result *)
(* is the concatenation, in container order, of the conversations of the   *)
(* containers that did not fail, and the call never raises.                *)
(***************************************************************************)
FailsToOpen(container) == container.access # "ok"

HasUndecodableValue(container) ==
    container.store.row = "value" /\ container.store.top = "bad"

ContainerFails(container) == FailsToOpen(container) \/ HasUndecodableValue(container)

\* the conversations the store of a container holds for a host
ConversationsOf(host, store, workspace_id) ==
    Extract(host, [store EXCEPT !.readable = TRUE], workspace_id).conversations

RECURSIVE ContributionsFrom(_, _, _)
ContributionsFrom(host, containers, i) ==
    IF i > Len(containers) THEN <<>>
    ELSE (IF ContainerFails(containers[i]) THEN <<>>
          ELSE ConversationsOf(host, containers[i].store, WorkspaceId(i)))
         \o ContributionsFrom(host, containers, i + 1)

\* C16: a finished run returns, without raising, the contributions of the
\* containers that did not fail, in container order
ContainerIsolation ==
    (op = "run" /\ pc = "done")
        => ret = Returned(ContributionsFrom(arg.host, arg.containers, 1))

\* a run that went on after a container was lost between the search and
\* the extraction, and returned the conversations of the next container
ContainerIsolationWitness ==
    /\ op = "run" /\ pc = "done"
    /\ Len(arg.containers) = 2
    /\ arg.containers[1].access = "lost"
    /\ ~ContainerFails(arg.containers[2])
    /\ ret.conversations # <<>>
    /\ \A k \in 1..Len(ret.conversations) : ret.conversations[k].workspace_id = WorkspaceId(2)


(***************************************************************************)
(* C15: the reader's get (_extract_key_data) and scan (_find_augment_keys) *)
(* never raise to their caller: when the connection cannot be obtained or  *)
(* the query fails (a container without the expected table included) get   *)
(* returns None and scan returns an empty sequence, so                     *)
(* extract_augment_data yields an empty result for that container.         *)
(***************************************************************************)
IsReaderCall == op \in {"find_augment_keys", "extract_key_data", "extract_augment_data"}

\* C15 as stated: no reader call raises, and on a store that cannot be
\* queried each call returns its empty value
ReaderNeverRaises ==
    (IsReaderCall /\ pc = "done")
        => /\ ~ret.raised
           /\ arg.kv.access # "ok" => ret.value = <<>>


(***************************************************************************)
(* C17: a conversation record stored as a JSON-encoded string is           *)
(* recognised by the type of its value, decoded, and assembled into the    *)
(* same conversation as the equivalent object-form record, on every host   *)
(* path (VSCode, Cursor, IDEA).                                            *)
(***************************************************************************)
IsStringRecord(conv_data) == conv_data.k = "json"

HasStringRecord(store) ==
    \E i \in 1..Len(store.convs) : IsStringRecord(store.convs[i].data)

\* the object the string decodes to
ObjectForm(conv_data) ==
    IF IsStringRecord(conv_data) THEN [conv_data EXCEPT !.k = "dict"] ELSE conv_data

\* the store with every string record replaced by its object form
WithObjectForms(store) ==
    [store EXCEPT !.convs = [i \in 1..Len(store.convs) |->
                                Item(store.convs[i].id, ObjectForm(store.convs[i].data))]]

StringRecordsDecodedOn(hosts) ==
    (op = "extract" /\ pc = "done" /\ arg.host \in hosts /\ HasStringRecord(arg.store))
        => ret = Extract(arg.host, WithObjectForms(arg.store), W1)

\* C17 as stated: on the VSCode, Cursor and IDEA paths a store with string
\* records gives what the store with the object forms gives
StringRecordsDecoded == StringRecordsDecodedOn({"vscode", "cursor", "idea"})

\* the Cursor path decodes the string record
StringRecordsDecodedCursor == StringRecordsDecodedOn({"cursor"})


(***************************************************************************)
(* C18: when a conversation record has no pinned field or no shareable     *)
(* field, the assembled conversation's pinned flag, respectively shareable *)
(* flag, is false; the default is the same in every host assembler.        *)
(***************************************************************************)
IsAssembled == op = "assemble" /\ pc = "done" /\ ret # <<>>

PinnedDefaultOn(hosts) ==
    (IsAssembled /\ arg.host \in hosts /\ ~arg.conv_data.has_pinned)
        => ~ret[1].is_pinned

ShareableDefaultOn(hosts) ==
    (IsAssembled /\ arg.host \in hosts /\ ~arg.conv_data.has_shareable)
        => ~ret[1].is_shareable

\* C18 as stated: both flags default to false in every host assembler
FlagDefaults == PinnedDefaultOn(Hosts) /\ ShareableDefaultOn(Hosts)

\* the pinned flag defaults to false everywhere
PinnedDefault == PinnedDefaultOn(Hosts)

\* the shareable flag defaults to false outside the Cursor assembler
ShareableDefaultElsewhere == ShareableDefaultOn(Hosts \ {"cursor"})

\* the Cursor assembler defaults the shareable flag to true
ShareableDefaultCursor ==
    (IsAssembled /\ arg.host = "cursor" /\ ~arg.conv_data.has_shareable)
        => ret[1].is_shareable


(***************************************************************************)
(* C19: the messages of a conversation are emitted in the stored order of  *)
(* its turn list: for turns i < j every message from turn i precedes every *)
(* message from turn j, within one turn the user message precedes the      *)
(* assistant message, and skipping a turn that produces no message does    *)
(* not reorder the others.                                                 *)
(***************************************************************************)
\* the messages the assembler of a host produces from turn t alone
TurnMessages(host, conv_data, t) ==
    MessagesOf(Assemble(host, ConvId(1), [conv_data EXCEPT !.hist = <<conv_data.hist[t]>>], W1))

RECURSIVE TurnsInOrder(_, _, _)
TurnsInOrder(host, conv_data, t) ==
    IF t > Len(conv_data.hist) THEN <<>>
    ELSE TurnMessages(host, conv_data, t) \o TurnsInOrder(host, conv_data, t + 1)

UserFirst(messages) ==
    \A a \in 1..Len(messages) : \A b \in 1..Len(messages) :
        (messages[a].role = "assistant" /\ messages[b].role = "user") => a > b

\* C19: the messages of an assembled conversation are those of its turns,
\* turn after turn in the order of the list, the user message first
StoredOrder ==
    (IsAssembled /\ arg.conv_data.hist_k = "list")
        => /\ ret[1].messages = TurnsInOrder(arg.host, arg.conv_data, 1)
           /\ \A t \in 1..Len(arg.conv_data.hist) :
                 UserFirst(TurnMessages(arg.host, arg.conv_data, t))

\* a conversation of three turns whose middle turn gives no message: the
\* first turn gave a user and an assistant message, the last turn others
StoredOrderWitness ==
    /\ IsAssembled
    /\ arg.conv_data.hist_k = "list"
    /\ Len(arg.conv_data.hist) = 3
    /\ TurnMessages(arg.host, arg.conv_data, 2) = <<>>
    /\ Len(TurnMessages(arg.host, arg.conv_data, 1)) = 2
    /\ TurnMessages(arg.host, arg.conv_data, 3) # <<>>
    /\ TurnMessages(arg.host, arg.conv_data, 3) # TurnMessages(arg.host, arg.conv_data, 1)
    /\ Len(ret[1].messages) = 4


(***************************************************************************)
(* C21: in the interface every host's converter produces for the           *)
(* presentation layer (convert_to_cursor_format,                           *)
(* convert_to_cursor_view_format) the conversation timestamps and every    *)
(* message timestamp are numeric epoch values.                             *)
(***************************************************************************)
IsEpoch(v) == v.k = "epoch"

IsConverted == op = "convert" /\ pc = "done"

ConversationTimesEpochOn(hosts) ==
    (IsConverted /\ arg.host \in hosts)
        => \A i \in 1..Len(ret) :
              /\ IsEpoch(ret[i].session.createdAt)
              /\ IsEpoch(ret[i].session.lastUpdatedAt)
              /\ IsEpoch(ret[i].date)

MessageTimesEpochOn(hosts) ==
    (IsConverted /\ arg.host \in hosts)
        => \A i \in 1..Len(ret) : \A j \in 1..Len(ret[i].messages) :
              IsEpoch(ret[i].messages[j].timestamp)

\* C21 as stated: conversation and message timestamps are epoch numbers
\* in the output of every converter
EpochTimestamps ==
    /\ ConversationTimesEpochOn({"vscode", "cursor", "idea"})
    /\ MessageTimesEpochOn({"vscode", "cursor", "idea"})

\* the conversation timestamps are epoch numbers in every converter
ConversationTimesEpoch == ConversationTimesEpochOn({"vscode", "cursor", "idea"})

\* the message timestamps are epoch numbers in the VSCode converter
MessageTimesEpochVscode == MessageTimesEpochOn({"vscode"})


(***************************************************************************)
(* C22: when the value under the main chat key fails to decode (its        *)
(* decoded form is still the raw string) or its inner state field fails to *)
(* decode (webviewState is still a string), parse_conversations returns an *)
(* empty list and does not raise.                                          *)
(***************************************************************************)
IsParserExtraction == op = "extract" /\ arg.host = "parser" /\ pc = "done"

\* the decoded value is the raw string
OuterDecodeFailed(store) == store.readable /\ store.row = "value" /\ store.top = "bad"

\* webviewState is still a string
InnerDecodeFailed(store) ==
    store.readable /\ store.row = "value" /\ store.top = "obj" /\ store.ws = "strbad"

\* C22 as stated: after a decode failure at either layer the parser returns
\* the empty list
DecodeFailureGivesEmpty ==
    (IsParserExtraction /\ (OuterDecodeFailed(arg.store) \/ InnerDecodeFailed(arg.store)))
        => ret = Returned(<<>>)

\* what the code does: after a decode failure at either layer the call raises
DecodeFailureRaises ==
    (IsParserExtraction /\ (OuterDecodeFailed(arg.store) \/ InnerDecodeFailed(arg.store)))
        => ret = RaisedToCaller


(***************************************************************************)
(* C23: the nested decoder makes a second decode pass only on the          *)
(* webviewState field of the top-level object, and only when its value is  *)
(* text, replacing the field in place; every other field, a field whose    *)
(* value is a JSON-encoded string included, is returned as the first pass  *)
(* produced it.                                                            *)
(***************************************************************************)
IsDecodedObject ==
    /\ IsDecodeOfData
    /\ arg.value.k \in {"str", "bytes"}
    /\ arg.value.doc.k = "object"
    /\ ~ret.raised

\* C23: of a decoded object only webviewState changes, from JSON text to
\* the state; a webviewState that is no text or no JSON and every other
\* field are as the first pass gave them
SecondPassOnInnerStateOnly ==
    IsDecodedObject
        => /\ ret.k = "decoded"
           /\ ret.doc.other_k = arg.value.doc.other_k
           /\ ret.doc.ws_text = arg.value.doc.ws_text
           /\ ret.doc.ws_k = IF arg.value.doc.ws_k = "strjson" THEN "dict"
                             ELSE arg.value.doc.ws_k

\* an object whose webviewState and whose other field both are JSON text:
\* the first is decoded, the second is still text
SecondPassWitness ==
    /\ IsDecodedObject
    /\ arg.value.doc.ws_k = "strjson" /\ arg.value.doc.other_k = "strjson"
    /\ ret.doc.ws_k = "dict" /\ ret.doc.other_k = "strjson"


RecordIds(container) ==
    {container.store.convs[k].id : k \in 1..Len(container.store.convs)}

\* conversation c was read from the i-th container
ReadFrom(c, i) ==
    c.workspace_id = WorkspaceId(i) /\ c.id \in RecordIds(arg.containers[i])

\* C25: each returned conversation names a container that holds its id,
\* and no two returned conversations agree on container and id
OwnedAndUnique ==
    (op = "run" /\ pc = "done")
        => /\ \A k \in 1..Len(ret.conversations) :
                 \E i \in 1..Len(arg.containers) : ReadFrom(ret.conversations[k], i)
           /\ \A k \in 1..Len(ret.conversations) : \A l \in 1..Len(ret.conversations) :
                 (ret.conversations[k].workspace_id = ret.conversations[l].workspace_id
                    /\ ret.conversations[k].id = ret.conversations[l].id) => k = l

\* two containers hold a conversation with the same id, and both are returned
OwnedAndUniqueWitness ==
    /\ op = "run" /\ pc = "done"
    /\ Len(ret.conversations) >= 2
    /\ \E k \in 1..Len(ret.conversations) : \E l \in 1..Len(ret.conversations) :
          /\ ret.conversations[k].id = ret.conversations[l].id
          /\ ret.conversations[k].workspace_id = WorkspaceId(1)
          /\ ret.conversations[l].workspace_id = WorkspaceId(2)


(***************************************************************************)
(* C26: for the same decoded conversation record the VSCode assembler and  *)
(* the Cursor assembler produce the same sequence of messages, compared by *)
(* (role, content, request id).                                            *)
(***************************************************************************)
Compared(messages) ==
    [i \in 1..Len(messages) |->
        <<messages[i].role, messages[i].content, messages[i].request_id>>]

RECURSIVE OfRole(_, _)
OfRole(messages, role) ==
    IF messages = <<>> THEN <<>>
    ELSE (IF Head(messages).role = role THEN <<Head(messages)>> ELSE <<>>)
         \o OfRole(Tail(messages), role)

IsVscodeAssembly ==
    op = "assemble" /\ pc = "done" /\ arg.host = "vscode" /\ arg.conv_data.k = "dict"

CursorAssembly == Assemble("cursor", ConvId(1), arg.conv_data, W1)

\* C26 as stated: both assemblers give the same messages for the record
SameMessagesOnBothHosts ==
    IsVscodeAssembly => Compared(MessagesOf(ret)) = Compared(MessagesOf(CursorAssembly))

\* for records all of whose timestamps are text and whose turns are
\* objects, both assemblers give the same user messages
SameUserMessagesOnBothHosts ==
    (IsVscodeAssembly /\ IsWellFormedRecord(arg.conv_data))
        => Compared(OfRole(MessagesOf(ret), "user"))
             = Compared(OfRole(MessagesOf(CursorAssembly), "user"))


(***************************************************************************)
(* C27: _merge_message_content never loses content: for all inputs the     *)
(* merged result contains the trimmed plain text as a substring and the    *)
(* trimmed structured content as a substring; in particular two texts that *)
(* overlap only partially are both kept in full.                           *)
(***************************************************************************)
\* C27: both trimmed texts are parts of the merged result
NoContentLost ==
    (pc = "done" /\ op = "merge")
        => /\ Contains(ret, Strip(arg.response_text))
           /\ Contains(ret, Strip(arg.structured_content))

\* the plain text ends with what the structured content begins with, none
\* contains the other, and the result holds both in full
NoContentLostWitness ==
    /\ pc = "done" /\ op = "merge"
    /\ Len(Strip(arg.response_text)) >= 2
    /\ Len(Strip(arg.structured_content)) >= 2
    /\ Strip(arg.response_text)[Len(Strip(arg.response_text))] = Strip(arg.structured_content)[1]
    /\ ~Contains(Strip(arg.response_text), Strip(arg.structured_content))
    /\ ~Contains(Strip(arg.structured_content), Strip(arg.response_text))
    /\ Len(ret) = Len(Strip(arg.response_text)) + Len(Strip(arg.structured_content)) + 2


(***************************************************************************)
(* C28: in _extract_structured_content a fragment that cannot be processed *)
(* (for example a fragment of a non-text, non-tool type whose content is a *)
(* structured value that is not a diagram) affects only itself: the        *)
(* content of every other fragment of the same turn still appears in the   *)
(* returned structured content.                                            *)
(***************************************************************************)
IsStructuredCall == op = "structured" /\ pc = "done"

\* fragment i of the output list cannot be processed
CannotBeProcessed(i) == OutputNodeParts(arg.structured_output_nodes[i]).raised

\* what every fragment that can be processed gives is part of the result
OtherFragmentsAppear ==
    /\ \A i \in 1..Len(arg.structured_output_nodes) :
          \A k \in 1..Len(OutputNodeParts(arg.structured_output_nodes[i]).parts) :
              Contains(ret, OutputNodeParts(arg.structured_output_nodes[i]).parts[k])
    /\ \A i \in 1..Len(arg.structured_request_nodes) :
          \A k \in 1..Len(RequestNodeParts(arg.structured_request_nodes[i]).parts) :
              Contains(ret, RequestNodeParts(arg.structured_request_nodes[i]).parts[k])

\* C28 as stated: whether or not a fragment fails, the content of the
\* others is in the result
FragmentFailureIsLocal == IsStructuredCall => OtherFragmentsAppear

\* when no fragment fails, the content of every fragment is in the result
FragmentsAppearWithoutFailure ==
    (IsStructuredCall
       /\ \A i \in 1..Len(arg.structured_output_nodes) : ~CannotBeProcessed(i))
        => OtherFragmentsAppear

\* what the code does: one fragment that fails empties the whole result
FragmentFailureEmptiesResult ==
    (IsStructuredCall
       /\ \E i \in 1..Len(arg.structured_output_nodes) : CannotBeProcessed(i))
        => ret = <<>>


(***************************************************************************)
(* C29: _extract_tool_uses returns exactly one ToolUse per tool-invocation *)
(* fragment (type 5 with a tool_use payload) of the turn, in the stored    *)
(* order of the fragment list, and the list is attached only to the        *)
(* assistant message of the turn; referenced workspace-file paths are      *)
(* attached only to the user message.                                      *)
(***************************************************************************)
InvocationsOf(chat_item) == SelectSeq(chat_item.structured_output_nodes, IsInvocation)

\* the tool uses are those of the invocation fragments, in stored order
OnePerInvocation(tool_uses, chat_item) ==
    /\ Len(tool_uses) = Len(InvocationsOf(chat_item))
    /\ \A i \in 1..Len(tool_uses) :
          /\ tool_uses[i].tool_use_id = InvocationsOf(chat_item)[i].tool_use.tool_use_id
          /\ tool_uses[i].tool_name = InvocationsOf(chat_item)[i].tool_use.tool_name

\* C29: a message _parse_message returns has the tool uses of the turn if
\* it is the assistant message and none if it is the user message, and has
\* the referenced files if it is the user message and none otherwise
ToolUsesAndFiles ==
    (op = "parse_message" /\ pc = "done")
        => \A k \in 1..Len(ret) :
              IF ret[k].role = "assistant"
              THEN /\ OnePerInvocation(ret[k].tool_uses, arg.entry.item)
                   /\ ret[k].workspace_files = <<>>
              ELSE /\ ret[k].tool_uses = <<>>
                   /\ ret[k].workspace_files = ExtractWorkspaceFiles(arg.entry.item)

\* an assistant message with two tool uses whose stored order is not the
\* order of the fragment ids, from a turn that references a file
ToolUsesAndFilesWitness ==
    /\ op = "parse_message" /\ pc = "done"
    /\ ret # <<>>
    /\ ret[1].role = "assistant"
    /\ Len(ret[1].tool_uses) = 2
    /\ ret[1].tool_uses[1].tool_use_id = IdX /\ ret[1].tool_uses[2].tool_use_id = IdY
    /\ arg.entry.item.structured_output_nodes[1].id > arg.entry.item.structured_output_nodes[2].id
    /\ ExtractWorkspaceFiles(arg.entry.item) # <<>>

\* a user message with the referenced file and no tool use, from a turn
\* that has tool invocations
FilesOnUserWitness ==
    /\ op = "parse_message" /\ pc = "done"
    /\ ret # <<>>
    /\ ret[1].role = "user"
    /\ ret[1].workspace_files # <<>>
    /\ InvocationsOf(arg.entry.item) # <<>>


(***************************************************************************)
(* C30: whenever ConfigManager.set_path or set_all_paths returns False     *)
(* (unsupported data-source key, or the settings file could not be         *)
(* written) the in-memory path configuration is unchanged: get_all_paths   *)
(* returns the same map after the call as before it; in particular         *)
(* set_all_paths with one unsupported key applies none of the other keys.  *)
(***************************************************************************)
\* the step is a setter call that returned False
SetterFailed == op' \in {"set_path", "set_all_paths"} /\ ret' = FALSE

\* the setter was given a key that is not supported
UnsupportedKey ==
    \/ op' = "set_path" /\ arg'.data_source \notin DataSources
    \/ op' = "set_all_paths" /\ \E k \in DOMAIN arg'.paths : k \notin DataSources

\* C30 as stated: a setter that returns False leaves get_all_paths as it was
FailedSetterKeepsPaths ==
    [][SetterFailed => GetAllPaths(locals') = GetAllPaths(locals)]_vars

\* a setter that returns False for an unsupported key leaves the paths as
\* they were, the other keys of set_all_paths included
UnsupportedKeyKeepsPaths ==
    [][(SetterFailed /\ UnsupportedKey) => GetAllPaths(locals') = GetAllPaths(locals)]_vars

\* a setter never changes the settings file when it returns False
FailedSetterKeepsFile ==
    [][SetterFailed => locals'.file = locals.file]_vars

====
